---- MODULE Spec2Model ----
(***************************************************************************)
(* Live Photo <-> Motion Photo converter (main.py, converter.py, batch.py, *)
(* utils.py).  Files are records of bytes and metadata tags; text values   *)
(* (tag values, tool output lines) are sequences of one-character strings. *)
(***************************************************************************)
EXTENDS Integers, Sequences, FiniteSets, TLC

VARIABLES
    pc,             \* position of the running function / program
    jpg,            \* the Motion Photo JPG handed to the detector / splitter
    video_size,     \* value returned by get_motion_photo_video_size (None or <<n>>)
    out_static,     \* file at out_static_jpg_path (None or <<bytes>>)
    out_video,      \* file at out_video_path (None or <<bytes>>)
    temp_jpg,       \* create_motion_photo: file at output_jpg_path + ".temp.jpg"
    temp_mp4,       \* create_motion_photo: file at output_jpg_path + ".temp.mp4"
    output_jpg,     \* create_motion_photo: file at output_jpg_path
    cmp_video_size, \* create_motion_photo: its local video_size
    cmp_exc,        \* create_motion_photo: the exception being propagated
    combined_from,  \* history: the bytes step 5 read, <<f_jpg.read(), f_mp4.read()>>
    content_uuid,   \* jpg_motion_to_heic_mov: its local content_uuid
    uuid_calls,     \* history: number of uuid.uuid4() calls of the job
    cover_ts_us,    \* jpg_motion_to_heic_mov: its local cover_ts_us
    temp_dir,       \* jpg_motion_to_heic_mov: whether the motion_photo_ directory exists
    heic,           \* jpg_motion_to_heic_mov: file at heic_path
    mov,            \* jpg_motion_to_heic_mov: file at mov_path
    job_exc,        \* jpg_motion_to_heic_mov: the exception being propagated
    listing,        \* the regular files of the input directory (os.listdir, isfile)
    input_there,    \* whether the --input path exists (a directory for batch.py)
    mode,           \* batch.py: args.type
    input_name,     \* main.py: the file name of args.input
    queue,          \* batch.py: livp_list / heic_pairs / jpg_list
    idx,            \* batch.py: position of the for loop in the list
    ok,             \* batch.py: ok
    failed,         \* batch.py: failed, a list of <<path, message>>
    job_log,        \* history: <<path, result>> of every job started, in order
    cli_temp_dir,   \* main.py: whether its temp_dir exists
    cli_event,      \* history: what decided the exit of the program
    exit_code,      \* the exit status of the process (None while it runs)
    out_files,      \* batch.py: the files of output_dir, each with the input whose job wrote it
    conv_dir,       \* image conversion: "heic_to_jpg" or "jpg_to_heic"
    conv_hdr,       \* image conversion: what the HDR classifier said of the input
    conv_tools,     \* image conversion: whether the gain-map tool chain is installed
    src_orient,     \* image conversion: Orientation tag of the metadata source
    out_img,        \* image conversion: file at output_path / heic_path
    conv_log,       \* history: the steps the conversion ran and how each ended
    conv_exc,       \* image conversion: the exception being propagated
    probed_mov,     \* timestamp inference: the MOV handed to ffprobe
    probe_ok,       \* history: whether the two ffprobe runs returned 0
    infer_ts,       \* value returned by get_apple_live_photo_presentation_timestamp_us
    batch_temp_dir, \* convert_batch_livp: whether the batch_livp_ directory exists
    batch_result,   \* convert_batch_livp: how the body of the running job ended
    image_path,     \* HDR classifier: the path handed to it
    image_tags,     \* HDR classifier: the tags exiftool can read from that file
    classifier,     \* history: which classifier ran and whether its exiftool run returned 0
    likely_hdr,     \* value returned by the classifier (None before it ran)
    path_tools,     \* the tools shutil.which finds on PATH at this moment
    tool_type,      \* tool probing: args.type of the batch
    hdr_hint,       \* batch.py: what has_ultrahdr_toolchain() returned (None when not called)
    tool_checks     \* history: the value of the tool test of every enhanced conversion

splitVars == <<jpg, video_size, out_static, out_video>>
cmpVars == <<temp_jpg, temp_mp4, output_jpg, cmp_video_size, cmp_exc, combined_from>>
jobVars == <<content_uuid, uuid_calls, cover_ts_us, temp_dir, heic, mov, job_exc>>
cliVars == <<listing, input_there, mode, input_name, queue, idx, ok, failed, job_log,
             cli_temp_dir, cli_event, exit_code, out_files>>
convVars == <<conv_dir, conv_hdr, conv_tools, src_orient, out_img, conv_log, conv_exc>>
inferVars == <<probed_mov, probe_ok, infer_ts>>
livpVars == <<batch_temp_dir, batch_result>>
hdrVars == <<image_path, image_tags, classifier, likely_hdr>>
toolVars == <<path_tools, tool_type, hdr_hint, tool_checks>>
probeVars == <<hdrVars, toolVars>>
auxVars == <<convVars, inferVars, livpVars, probeVars>>
vars == <<pc, splitVars, cmpVars, jobVars, cliVars, auxVars>>

\* ---------------------------------------------------------------- bounds
MaxTagLen == 2     \* longest tag value enumerated for the detector
MaxFileLen == 4    \* longest input file enumerated for the splitter
MaxImgLen == 2     \* longest converted image enumerated for the assembler
MaxVidLen == 2     \* longest transcoded video enumerated for the assembler
MaxDirFiles == 3   \* most files enumerated in the input directory
MaxPackets == 2    \* most packets enumerated in the data tracks of a MOV

\* ---------------------------------------------------------------- values
\* Python's None / a present value
None == <<>>
Some(v) == <<v>>
IsNone(o) == o = <<>>
Val(o) == o[1]

Byte == {0, 1}

RECURSIVE SeqsUpTo(_, _)
SeqsUpTo(S, n) ==
    IF n = 0 THEN {<<>>}
    ELSE LET shorter == SeqsUpTo(S, n - 1)
         IN  shorter \cup {Append(s, c) : s \in {t \in shorter : Len(t) = n - 1}, c \in S}

\* ---------------------------------------------------------------- str methods
Digits == {"0", "1", "2", "3", "4", "5", "6", "7", "8", "9"}

DigitVal(c) ==
    CASE c = "0" -> 0 [] c = "1" -> 1 [] c = "2" -> 2 [] c = "3" -> 3 [] c = "4" -> 4
      [] c = "5" -> 5 [] c = "6" -> 6 [] c = "7" -> 7 [] c = "8" -> 8 [] c = "9" -> 9

DigitChar(d) ==
    CASE d = 0 -> "0" [] d = 1 -> "1" [] d = 2 -> "2" [] d = 3 -> "3" [] d = 4 -> "4"
      [] d = 5 -> "5" [] d = 6 -> "6" [] d = 7 -> "7" [] d = 8 -> "8" [] d = 9 -> "9"

\* str.isdigit(): non-empty and every character a decimal digit
isdigit(s) == Len(s) > 0 /\ \A i \in 1..Len(s) : s[i] \in Digits

\* int(s) for a string of decimal digits
RECURSIVE int(_)
int(s) ==
    IF Len(s) = 0 THEN 0
    ELSE int(SubSeq(s, 1, Len(s) - 1)) * 10 + DigitVal(s[Len(s)])

\* str(n) / f'{n}' for a non-negative integer
RECURSIVE str(_)
str(n) ==
    IF n < 10 THEN <<DigitChar(n)>>
    ELSE Append(str(n \div 10), DigitChar(n % 10))

\* str.strip(): leading and trailing blanks removed
RECURSIVE lstrip(_)
lstrip(s) == IF Len(s) > 0 /\ s[1] = " " THEN lstrip(Tail(s)) ELSE s

RECURSIVE rstrip(_)
rstrip(s) ==
    IF Len(s) > 0 /\ s[Len(s)] = " " THEN rstrip(SubSeq(s, 1, Len(s) - 1)) ELSE s

strip(s) == rstrip(lstrip(s))

\* s.split(sep)[-1]: what follows the last sep (all of s when it has none)
RECURSIVE split_last(_, _)
split_last(s, sep) ==
    IF Len(s) = 0 THEN <<>>
    ELSE IF s[Len(s)] = sep THEN <<>>
    ELSE Append(split_last(SubSeq(s, 1, Len(s) - 1), sep), s[Len(s)])

\* ---------------------------------------------------------------- exiftool reads
\* exiftool -s -n -Tag1 -Tag2 file: exit code, and one line "Name : value" per
\* requested tag the file holds, in the order the tags were requested.  A file
\* the tool cannot read gives a non-zero exit code and no lines.
TagLine(name, value) == <<name, " ", ":", " ">> \o value

RECURSIVE TagLines(_, _)
TagLines(file, names) ==
    IF Len(names) = 0 THEN <<>>
    ELSE LET v == file.tags[Head(names)]
             rest == TagLines(file, Tail(names))
         IN  IF IsNone(v) THEN rest ELSE <<TagLine(Head(names), Val(v))>> \o rest

exiftool_read(file, names) ==
    IF file.readable
    THEN [returncode |-> 0, lines |-> TagLines(file, names)]
    ELSE [returncode |-> 1, lines |-> <<>>]

\* ---------------------------------------------------------------- utils.get_motion_photo_video_size
\* first loop (utils.py 529-535): the first line whose value is all digits
RECURSIVE first_digit_value(_)
first_digit_value(lines) ==
    IF Len(lines) = 0 THEN None
    ELSE LET line == strip(Head(lines))
             value == strip(split_last(line, ":"))
         IN  IF Len(line) = 0 THEN first_digit_value(Tail(lines))
             ELSE IF isdigit(value) THEN Some(int(value))
             ELSE first_digit_value(Tail(lines))

\* faulty variant: the vendor value is parsed whole, not by its last element
RECURSIVE first_last_element_whole(_)
first_last_element_whole(lines) ==
    IF Len(lines) = 0 THEN None
    ELSE LET value == strip(split_last(Head(lines), ":"))
         IN  IF isdigit(value) THEN Some(int(value))
             ELSE first_last_element_whole(Tail(lines))

\* second loop (utils.py 545-552): the first line whose last comma-separated
\* element is all digits
RECURSIVE first_last_element(_)
first_last_element(lines) ==
    IF Len(lines) = 0 THEN None
    ELSE LET value == strip(split_last(Head(lines), ":"))
             last == strip(split_last(value, ","))
         IN  IF isdigit(last) THEN Some(int(last))
             ELSE first_last_element(Tail(lines))

\* faulty variant: the probe asks for the directory length before the offset
get_motion_photo_video_size_b_first(file) ==
    LET result == exiftool_read(file, <<"Directory1Length", "MicroVideoOffset">>)
        first == IF result.returncode = 0 THEN first_digit_value(result.lines) ELSE None
        result2 == exiftool_read(file, <<"DirectoryItemLength">>)
    IN  IF ~IsNone(first) THEN first
        ELSE IF result2.returncode = 0 /\ Len(result2.lines) > 0
             THEN first_last_element(result2.lines)
             ELSE None

get_motion_photo_video_size(file) ==
    LET result == exiftool_read(file, <<"MicroVideoOffset", "Directory1Length">>)
        first == IF result.returncode = 0 THEN first_digit_value(result.lines) ELSE None
        result2 == exiftool_read(file, <<"DirectoryItemLength">>)
    IN  IF ~IsNone(first) THEN first
        ELSE IF result2.returncode = 0 /\ Len(result2.lines) > 0
             THEN first_last_element(result2.lines)
             ELSE None

\* ---------------------------------------------------------------- files
TagNames ==
    {"MicroVideoOffset", "Directory1Length", "DirectoryItemLength",
     "MotionPhotoPresentationTimestampUs", "MicroVideoPresentationTimestampUs"}

NoTags == [n \in TagNames |-> None]

\* tags of a file holding the three video-length tags a, b, c (None: not held)
OffsetTags(a, b, c) ==
    [NoTags EXCEPT !["MicroVideoOffset"] = a, !["Directory1Length"] = b,
                   !["DirectoryItemLength"] = c]

File(bytes, tags, readable) == [bytes |-> bytes, tags |-> tags, readable |-> readable]

\* ---------------------------------------------------------------- utils.split_motion_photo_jpg
\* f.read(n) at offset pos: n bytes or what is left; all that is left when n < 0
read(bytes, pos, n) ==
    IF n < 0 \/ pos + n > Len(bytes) THEN SubSeq(bytes, pos + 1, Len(bytes))
    ELSE SubSeq(bytes, pos + 1, pos + n)

Raised(msg) ==
    [raised |-> TRUE, error |-> msg, static |-> None, video |-> None]

Returned(static_data, video_data) ==
    [raised |-> FALSE, error |-> "", static |-> Some(static_data),
     video |-> Some(video_data)]

\* faulty variant: the check that the video is shorter than the file is missing
split_motion_photo_jpg_no_size_check(file) ==
    LET size == get_motion_photo_video_size(file)
        file_size == Len(file.bytes)
        static_size == file_size - Val(size)
        static_data == read(file.bytes, 0, static_size)
        video_data == read(file.bytes, Len(static_data), 0 - 1)
    IN  IF IsNone(size) \/ Val(size) <= 0
        THEN Raised("Not a motion photo or missing video size")
        ELSE IF Len(video_data) # Val(size) THEN Raised("Unexpected trailing bytes")
        ELSE Returned(static_data, video_data)

\* faulty variant: a detected length of 0 is let through
split_motion_photo_jpg_zero_ok(file) ==
    LET size == get_motion_photo_video_size(file)
        file_size == Len(file.bytes)
        static_size == file_size - Val(size)
        static_data == read(file.bytes, 0, static_size)
        video_data == read(file.bytes, Len(static_data), 0 - 1)
    IN  IF IsNone(size)
        THEN Raised("Not a motion photo or missing video size")
        ELSE IF static_size <= 0 THEN Raised("Invalid motion photo")
        ELSE IF Len(video_data) # Val(size) THEN Raised("Unexpected trailing bytes")
        ELSE Returned(static_data, video_data)

split_motion_photo_jpg(file) ==
    LET size == get_motion_photo_video_size(file)
        file_size == Len(file.bytes)
        static_size == file_size - Val(size)
        static_data == read(file.bytes, 0, static_size)
        video_data == read(file.bytes, Len(static_data), 0 - 1)
    IN  IF IsNone(size) \/ Val(size) <= 0
        THEN Raised("Not a motion photo or missing video size")
        ELSE IF static_size <= 0 THEN Raised("Invalid motion photo")
        ELSE IF Len(video_data) # Val(size) THEN Raised("Unexpected trailing bytes")
        ELSE Returned(static_data, video_data)

\* ---------------------------------------------------------------- utils.inject_motion_photo_metadata
\* faulty variant: only the MicroVideoOffset of Scheme A is written
inject_motion_photo_metadata_offset_only(tags, video_size_bytes) ==
    [tags EXCEPT !["MicroVideoOffset"] = Some(str(video_size_bytes))]

\* the tags exiftool sets: both schemes carry video_size_bytes, both timestamp
\* fields the default presentation_timestamp_us=0 of the only caller
inject_motion_photo_metadata(tags, video_size_bytes) ==
    [tags EXCEPT !["MicroVideoOffset"] = Some(str(video_size_bytes)),
                 !["Directory1Length"] = Some(str(video_size_bytes)),
                 !["MotionPhotoPresentationTimestampUs"] = Some(str(0)),
                 !["MicroVideoPresentationTimestampUs"] = Some(str(0))]

get_file_size(file) == Len(file.bytes)

\* faulty variant: the video is written before the image
combine_video_first(jpg_bytes, mp4_bytes) == mp4_bytes \o jpg_bytes

\* converter.py 38-43: f_out.write(f_jpg.read()) then f_out.write(f_mp4.read())
combine(jpg_bytes, mp4_bytes) == jpg_bytes \o mp4_bytes

\* ---------------------------------------------------------------- utils.get_motion_photo_presentation_timestamp_us
\* exiftool -s3 -n: the values alone, one line per requested tag the file holds
RECURSIVE ValueLines(_, _)
ValueLines(file, names) ==
    IF Len(names) = 0 THEN <<>>
    ELSE LET v == file.tags[Head(names)]
             rest == ValueLines(file, Tail(names))
         IN  IF IsNone(v) THEN rest ELSE <<Val(v)>> \o rest

exiftool_read_s3(file, names) ==
    IF file.readable
    THEN [returncode |-> 0, lines |-> ValueLines(file, names)]
    ELSE [returncode |-> 1, lines |-> <<>>]

\* utils.py 326-332: the first non-empty line that is all digits
RECURSIVE first_digit_line(_)
first_digit_line(lines) ==
    IF Len(lines) = 0 THEN None
    ELSE LET line == strip(Head(lines))
         IN  IF Len(line) > 0 /\ isdigit(line) THEN Some(int(line))
             ELSE first_digit_line(Tail(lines))

get_motion_photo_presentation_timestamp_us(file) ==
    LET result == exiftool_read_s3(file, <<"MotionPhotoPresentationTimestampUs",
                                           "MicroVideoPresentationTimestampUs">>)
    IN  IF result.returncode # 0 THEN None ELSE first_digit_line(result.lines)

\* utils._safe_non_negative_int for a value that is None or an integer
_safe_non_negative_int(value, default) ==
    IF IsNone(value) THEN default
    ELSE IF Val(value) >= 0 THEN Val(value) ELSE default

\* ---------------------------------------------------------------- Live Photo files
\* a HEIC: its ContentIdentifier, LivePhotoVideoIndex and XMP timestamp fields
Heic(content_id, video_index, ts_xmp) ==
    [content_id |-> content_id, video_index |-> video_index, ts_xmp |-> ts_xmp]

\* a MOV: its Keys:ContentIdentifier, the identifier and still-image time the
\* AVFoundation writer embedded
Mov(keys_id, writer_id, still_time) ==
    [keys_id |-> keys_id, writer_id |-> writer_id, still_time |-> still_time]

\* utils.convert_jpg_to_heic: the HEIC carries the source's metadata with the
\* motion-photo tags stripped
NewHeic == Heic(None, None, None)

\* utils.set_heic_content_identifier: exiftool -ContentIdentifier=<uuid>
set_heic_content_identifier(h, uuid) == [h EXCEPT !.content_id = Some(uuid)]

\* faulty variant: the identifier is not written to the MOV
set_mov_content_identifier_skipped(m, uuid) == m

\* utils.set_mov_content_identifier: exiftool -Keys:ContentIdentifier=<uuid>
set_mov_content_identifier(m, uuid) == [m EXCEPT !.keys_id = Some(uuid)]

\* utils.set_heic_live_photo_video_index: the Apple field is best effort, the
\* XMP fields are required
set_heic_live_photo_video_index(h, presentation_timestamp_us, apple_ok) ==
    LET ts_us == _safe_non_negative_int(presentation_timestamp_us, 0)
    IN  [h EXCEPT !.video_index = IF apple_ok THEN Some(ts_us) ELSE @,
                  !.ts_xmp = Some(ts_us)]

\* utils.convert_mp4_to_mov: the AVFoundation writer when a timestamp is given
\* and the writer is usable (avf_usable) and exits 0 (swift_ok); the ffmpeg copy
\* otherwise, which raises when ffmpeg exits non-zero
convert_mp4_to_mov(presentation_timestamp_us, uuid, avf_usable, swift_ok, ffmpeg_ok) ==
    IF ~IsNone(presentation_timestamp_us) /\ avf_usable /\ swift_ok
    THEN [raised |-> FALSE,
          mov |-> Some(Mov(None, uuid,
                           Some(_safe_non_negative_int(presentation_timestamp_us, 0))))]
    ELSE IF ffmpeg_ok
    THEN [raised |-> FALSE, mov |-> Some(Mov(None, None, None))]
    ELSE [raised |-> TRUE, mov |-> None]

\* uuid.uuid4() as text, and str.upper() of it
UUID4 == {"u1", "u2"}
upper(u) == CASE u = "u1" -> "U1" [] u = "u2" -> "U2"

NotAMotionPhoto == "Not a motion photo or missing video size."

\* faulty variant: only a missing length is rejected
not_a_motion_photo_none_only(size) == IsNone(size)

\* main.py 37: video_size is None or video_size <= 0
not_a_motion_photo(size) == IsNone(size) \/ Val(size) <= 0

\* ---------------------------------------------------------------- directory entries
\* a file name: what os.path.splitext splits it into
Bases == {"a", "b"}
Exts == {".HEIC", ".MOV", ".Mov", ".heic", ".jpeg", ".jpg", ".livp", ".mov", ".txt"}
Names == [base : Bases, ext : Exts]

Name(base, ext) == [base |-> base, ext |-> ext]

\* str.lower() of an extension
lower(ext) ==
    CASE ext = ".HEIC" -> ".heic"
      [] ext \in {".MOV", ".Mov"} -> ".mov"
      [] OTHER -> ext

\* the order of sorted() on these names: by code point, capitals before small letters
BaseOrd(b) == CASE b = "a" -> 1 [] b = "b" -> 2
ExtOrd(e) ==
    CASE e = ".HEIC" -> 1 [] e = ".MOV" -> 2 [] e = ".Mov" -> 3 [] e = ".heic" -> 4
      [] e = ".jpeg" -> 5 [] e = ".jpg" -> 6 [] e = ".livp" -> 7 [] e = ".mov" -> 8
      [] e = ".txt" -> 9

NameLess(m, n) ==
    \/ BaseOrd(m.base) < BaseOrd(n.base)
    \/ m.base = n.base /\ ExtOrd(m.ext) < ExtOrd(n.ext)

RECURSIVE sorted(_)
sorted(S) ==
    IF S = {} THEN <<>>
    ELSE LET least == CHOOSE x \in S : \A y \in S \ {x} : NameLess(x, y)
         IN  <<least>> \o sorted(S \ {least})

\* an entry of the work list: the input and, for a HEIC pair, its video
Entry(input, video) == [input |-> input, video |-> video]

\* batch.collect_livp_files
collect_livp_files(files) ==
    LET found == sorted({n \in files : lower(n.ext) = ".livp"})
    IN  [i \in 1..Len(found) |-> Entry(found[i], None)]

\* faulty variant: only the lower-case .mov sidecar is looked for
collect_heic_pairs_lower_only(files) ==
    LET mov_path(n) == Name(n.base, ".mov")
        found == sorted({n \in files : lower(n.ext) = ".heic" /\ mov_path(n) \in files})
    IN  [i \in 1..Len(found) |-> Entry(found[i], Some(mov_path(found[i])))]

\* batch.collect_heic_pairs: base + ".mov" when that is a file, else base + ".MOV"
collect_heic_pairs(files) ==
    LET mov_path(n) == IF Name(n.base, ".mov") \in files THEN Name(n.base, ".mov")
                       ELSE Name(n.base, ".MOV")
        found == sorted({n \in files : lower(n.ext) = ".heic" /\ mov_path(n) \in files})
    IN  [i \in 1..Len(found) |-> Entry(found[i], Some(mov_path(found[i])))]

\* batch.collect_motion_jpg_files
collect_motion_jpg_files(files) ==
    LET found == sorted({n \in files : lower(n.ext) \in {".jpg", ".jpeg"}})
    IN  [i \in 1..Len(found) |-> Entry(found[i], None)]

\* faulty variant: the loop is left at the first job that raised
next_job_stop_on_error(i, total, raised) == IF raised THEN total + 1 ELSE i + 1

\* batch.py 82-100, 115-125, 140-152: the except clauses keep the for loop going
next_job(i, total, raised) == i + 1

\* faulty variant: an incomplete LIVP is logged and the program ends normally
exit_status_incomplete_ok(event) ==
    IF event \in {"completed", "incomplete_livp"} THEN 0 ELSE 1

\* main.py 110-163: sys.exit(1) on every error branch, 0 when main() returns
exit_status(event) == IF event = "completed" THEN 0 ELSE 1

\* batch.py 212: sys.exit(0 if not failed else 1)
batch_exit_status(failures) == IF failures = <<>> THEN 0 ELSE 1

\* ---------------------------------------------------------------- idle parts
NoFile == File(<<>>, NoTags, FALSE)

SplitIdle ==
    /\ jpg = NoFile
    /\ video_size = None
    /\ out_static = None
    /\ out_video = None

CmpIdle ==
    /\ temp_jpg = None
    /\ temp_mp4 = None
    /\ output_jpg = None
    /\ cmp_video_size = None
    /\ cmp_exc = None
    /\ combined_from = None

JobIdle ==
    /\ content_uuid = None
    /\ uuid_calls = 0
    /\ cover_ts_us = None
    /\ temp_dir = FALSE
    /\ heic = None
    /\ mov = None
    /\ job_exc = None

CliIdle ==
    /\ listing = {}
    /\ input_there = FALSE
    /\ mode = ""
    /\ input_name = None
    /\ queue = <<>>
    /\ idx = 0
    /\ ok = 0
    /\ failed = <<>>
    /\ job_log = <<>>
    /\ cli_temp_dir = FALSE
    /\ cli_event = ""
    /\ exit_code = None
    /\ out_files = {}

ConvIdle ==
    /\ conv_dir = ""
    /\ conv_hdr = FALSE
    /\ conv_tools = FALSE
    /\ src_orient = None
    /\ out_img = None
    /\ conv_log = <<>>
    /\ conv_exc = None

InferIdle ==
    /\ probed_mov = [packets |-> <<>>, duration |-> <<>>]
    /\ probe_ok = <<>>
    /\ infer_ts = None

LivpIdle ==
    /\ batch_temp_dir = FALSE
    /\ batch_result = ""

HdrIdle ==
    /\ image_path = <<>>
    /\ image_tags = <<>>
    /\ classifier = <<>>
    /\ likely_hdr = None

ToolIdle ==
    /\ path_tools = {}
    /\ tool_type = ""
    /\ hdr_hint = None
    /\ tool_checks = <<>>

ProbeIdle == HdrIdle /\ ToolIdle

AuxIdle == ConvIdle /\ InferIdle /\ LivpIdle /\ ProbeIdle

\* ---------------------------------------------------------------- detector runs
\* characters of the enumerated tag values: two digits, the list separator and
\* a sign (a value such as "-2" is not all digits)
TagChars == {"0", "2", ",", "-"}

\* list values as the metadata tool prints them ("a,b" and "a, b")
TagListValues == {<<"0", ",", "2">>, <<"2", ",", " ", "0">>}

TagValues ==
    {None} \cup {Some(s) : s \in SeqsUpTo(TagChars, MaxTagLen) \cup TagListValues}

DetectInit ==
    /\ pc = "detect"
    /\ \/ \E a \in TagValues, b \in TagValues, c \in TagValues :
             jpg = File(<<0>>,
                        OffsetTags(a, b, c),
                        TRUE)
       \/ jpg = File(<<0>>, NoTags, FALSE)
    /\ video_size = None
    /\ out_static = None
    /\ out_video = None
    /\ CmpIdle
    /\ JobIdle
    /\ CliIdle
    /\ AuxIdle

Detect ==
    /\ pc = "detect"
    /\ video_size' = get_motion_photo_video_size(jpg)
    /\ pc' = "detected"
    /\ UNCHANGED <<jpg, out_static, out_video, cmpVars, jobVars, cliVars, auxVars>>

DetectNext == Detect

SpecDetect == DetectInit /\ [][DetectNext]_vars

\* ---------------------------------------------------------------- splitter runs
\* input files: any bytes up to MaxFileLen, a Scheme-A offset around the file
\* size (or none, or a negative one), stale Scheme-B and vendor values
SplitOffsets ==
    {None, Some(<<"-", "2">>)} \cup {Some(str(n)) : n \in 0..(MaxFileLen + 1)}

SplitInputs ==
    {File(b, OffsetTags(a, d, c), TRUE) :
        b \in SeqsUpTo(Byte, MaxFileLen), a \in SplitOffsets,
        d \in {None, Some(str(2))}, c \in {None, Some(<<"1", ",", "3">>)}}
    \cup {File(b, NoTags, FALSE) : b \in SeqsUpTo(Byte, MaxFileLen)}

SplitInit ==
    /\ pc = "split"
    /\ jpg \in SplitInputs
    /\ video_size = None
    /\ out_static = None
    /\ out_video = None
    /\ CmpIdle
    /\ JobIdle
    /\ CliIdle
    /\ AuxIdle

\* split_motion_photo_jpg(jpg_path, out_static_jpg_path, out_video_path)
Split ==
    /\ pc = "split"
    /\ LET r == split_motion_photo_jpg(jpg)
       IN  /\ video_size' = get_motion_photo_video_size(jpg)
           /\ IF r.raised
              THEN /\ pc' = "split_raised"
                   /\ UNCHANGED <<out_static, out_video>>
              ELSE /\ pc' = "split_returned"
                   /\ out_static' = r.static
                   /\ out_video' = r.video
    /\ UNCHANGED <<jpg, cmpVars, jobVars, cliVars, auxVars>>

SplitNext == Split

SpecSplit == SplitInit /\ [][SplitNext]_vars

\* ---------------------------------------------------------------- converter.create_motion_photo
ImageBytes == SeqsUpTo(Byte, MaxImgLen) \ {<<>>}
VideoBytes == SeqsUpTo(Byte, MaxVidLen) \ {<<>>}

\* tags the converted image can carry before injection, copied from its source
\* by -TagsFromFile: none, or stale motion-photo tags
SourceTags ==
    {NoTags,
     OffsetTags(Some(<<"9">>), None, Some(<<"1", ",", "3">>))}

\* a file already at output_jpg_path before the call
OldOutput == File(<<1, 1, 1>>, NoTags, TRUE)

\* what a failed tool or a failed write can leave at its output path
Leftovers(before, partial) == {before, Some(File(partial, NoTags, FALSE))}

\* faulty variant: the files are concatenated before the metadata is injected
after_combine_first(step) ==
    CASE step = "cmp_convert_image" -> "cmp_convert_video"
      [] step = "cmp_convert_video" -> "cmp_get_size"
      [] step = "cmp_get_size" -> "cmp_combine"
      [] step = "cmp_combine" -> "cmp_inject"
      [] step = "cmp_inject" -> "cmp_finally"

\* converter.py 19-45: the statement that follows a step of the try block
after(step) ==
    CASE step = "cmp_convert_image" -> "cmp_convert_video"
      [] step = "cmp_convert_video" -> "cmp_get_size"
      [] step = "cmp_get_size" -> "cmp_inject"
      [] step = "cmp_inject" -> "cmp_combine"
      [] step = "cmp_combine" -> "cmp_finally"

AssembleInit ==
    /\ pc = "cmp_convert_image"
    /\ SplitIdle
    /\ JobIdle
    /\ CliIdle
    /\ AuxIdle
    /\ temp_jpg = None
    /\ temp_mp4 = None
    /\ output_jpg \in {None, Some(OldOutput)}
    /\ cmp_video_size = None
    /\ cmp_exc = None
    /\ combined_from = None

\* 1. convert_heic_to_jpg(image_path, temp_jpg)
CmpConvertImage ==
    /\ pc = "cmp_convert_image"
    /\ \/ \E b \in ImageBytes, t \in SourceTags :
             /\ temp_jpg' = Some(File(b, t, TRUE))
             /\ pc' = after("cmp_convert_image")
             /\ UNCHANGED cmp_exc
       \/ /\ temp_jpg' \in Leftovers(temp_jpg, <<>>)
          /\ cmp_exc' = Some("convert_heic_to_jpg")
          /\ pc' = "cmp_except"
    /\ UNCHANGED <<splitVars, jobVars, cliVars, auxVars, temp_mp4, output_jpg, cmp_video_size, combined_from>>

\* 2. convert_mov_to_mp4(mov_path, temp_mp4)
CmpConvertVideo ==
    /\ pc = "cmp_convert_video"
    /\ \/ \E b \in VideoBytes :
             /\ temp_mp4' = Some(File(b, NoTags, TRUE))
             /\ pc' = after("cmp_convert_video")
             /\ UNCHANGED cmp_exc
       \/ /\ temp_mp4' \in Leftovers(temp_mp4, <<>>)
          /\ cmp_exc' = Some("convert_mov_to_mp4")
          /\ pc' = "cmp_except"
    /\ UNCHANGED <<splitVars, jobVars, cliVars, auxVars, temp_jpg, output_jpg, cmp_video_size, combined_from>>

\* 3. video_size = get_file_size(temp_mp4)
CmpGetSize ==
    /\ pc = "cmp_get_size"
    /\ cmp_video_size' = Some(get_file_size(Val(temp_mp4)))
    /\ pc' = after("cmp_get_size")
    /\ UNCHANGED <<splitVars, jobVars, cliVars, auxVars, temp_jpg, temp_mp4, output_jpg, cmp_exc, combined_from>>

\* 4. inject_motion_photo_metadata(temp_jpg, video_size): exiftool rewrites the
\* image in place with the tags set, or exits non-zero and run_command raises
CmpInject ==
    /\ pc = "cmp_inject"
    /\ \/ \E b \in ImageBytes :
             /\ temp_jpg' = Some(File(b,
                                inject_motion_photo_metadata(Val(temp_jpg).tags,
                                                             Val(cmp_video_size)),
                                TRUE))
             /\ pc' = after("cmp_inject")
             /\ UNCHANGED cmp_exc
       \/ /\ cmp_exc' = Some("inject_motion_photo_metadata")
          /\ pc' = "cmp_except"
          /\ UNCHANGED temp_jpg
    /\ UNCHANGED <<splitVars, jobVars, cliVars, auxVars, temp_mp4, output_jpg, cmp_video_size, combined_from>>

\* 5. open(output_jpg_path, "wb"), write the image, write the video
CmpCombine ==
    /\ pc = "cmp_combine"
    /\ LET jpg_bytes == Val(temp_jpg).bytes
           mp4_bytes == Val(temp_mp4).bytes
       IN  \/ /\ output_jpg' = Some(File(combine(jpg_bytes, mp4_bytes),
                                         Val(temp_jpg).tags, TRUE))
              /\ combined_from' = Some(<<jpg_bytes, mp4_bytes>>)
              /\ pc' = after("cmp_combine")
              /\ UNCHANGED cmp_exc
           \/ /\ output_jpg' \in Leftovers(output_jpg, <<>>)
                                 \cup {Some(File(jpg_bytes, Val(temp_jpg).tags, TRUE))}
              /\ cmp_exc' = Some("open/write")
              /\ pc' = "cmp_except"
              /\ UNCHANGED combined_from
    /\ UNCHANGED <<splitVars, jobVars, cliVars, auxVars, temp_jpg, temp_mp4, cmp_video_size>>

\* except Exception as e: logger.error(...); raise e
CmpExcept ==
    /\ pc = "cmp_except"
    /\ pc' = "cmp_finally"
    /\ UNCHANGED <<splitVars, jobVars, cliVars, auxVars, cmpVars>>

\* finally: remove temp_jpg and temp_mp4 when they exist
CmpFinally ==
    /\ pc = "cmp_finally"
    /\ temp_jpg' = None
    /\ temp_mp4' = None
    /\ pc' = IF IsNone(cmp_exc) THEN "cmp_returned" ELSE "cmp_raised"
    /\ UNCHANGED <<splitVars, jobVars, cliVars, auxVars, output_jpg, cmp_video_size, cmp_exc, combined_from>>

create_motion_photo ==
    \/ CmpConvertImage
    \/ CmpConvertVideo
    \/ CmpGetSize
    \/ CmpInject
    \/ CmpCombine
    \/ CmpExcept
    \/ CmpFinally

\* the Motion Photo just written is handed to split_motion_photo_jpg
SplitOutput ==
    /\ pc = "cmp_returned"
    /\ jpg' = Val(output_jpg)
    /\ pc' = "split"
    /\ UNCHANGED <<video_size, out_static, out_video, cmpVars, jobVars, cliVars, auxVars>>

AssembleNext == create_motion_photo \/ SplitOutput \/ Split

SpecAssemble == AssembleInit /\ [][AssembleNext]_vars

\* ---------------------------------------------------------------- main.jpg_motion_to_heic_mov
\* input files of a job: as for the splitter, over one byte value, with the two
\* cover-timestamp tags
JobInputs ==
    {File(b, [OffsetTags(a, d, c) EXCEPT !["MotionPhotoPresentationTimestampUs"] = t1,
                                       !["MicroVideoPresentationTimestampUs"] = t2],
          TRUE) :
        b \in SeqsUpTo({0}, MaxFileLen), a \in SplitOffsets,
        d \in {None, Some(str(2))}, c \in {None, Some(<<"1", ",", "3">>)},
        t1 \in {None, Some(<<"5">>), Some(<<"-", "2">>)}, t2 \in {None, Some(<<"7">>)}}
    \cup {File(b, NoTags, FALSE) : b \in SeqsUpTo({0}, MaxFileLen)}

\* a pair left at the output paths by an earlier run
OldHeic == Heic(Some("OLD"), None, None)
OldMov == Mov(Some("OLD"), None, None)

JobInit ==
    /\ pc = "job_detect"
    /\ jpg \in JobInputs
    /\ video_size = None
    /\ out_static = None
    /\ out_video = None
    /\ CmpIdle
    /\ content_uuid = None
    /\ uuid_calls = 0
    /\ cover_ts_us = None
    /\ temp_dir = FALSE
    /\ \/ heic = None /\ mov = None
       \/ heic = Some(OldHeic) /\ mov = Some(OldMov)
    /\ job_exc = None
    /\ CliIdle
    /\ AuxIdle

\* main.py 36-41
JobDetect ==
    /\ pc = "job_detect"
    /\ video_size' = get_motion_photo_video_size(jpg)
    /\ IF not_a_motion_photo(video_size')
       THEN /\ job_exc' = Some(NotAMotionPhoto)
            /\ pc' = "job_raised"
       ELSE /\ pc' = "job_makedirs"
            /\ UNCHANGED job_exc
    /\ UNCHANGED <<jpg, out_static, out_video, cmpVars, cliVars, auxVars,
                   content_uuid, uuid_calls, cover_ts_us, temp_dir, heic, mov>>

\* main.py 42-54: output paths, os.makedirs(out_dir, exist_ok=True)
JobMakedirs ==
    /\ pc = "job_makedirs"
    /\ \/ pc' = "job_uuid" /\ UNCHANGED job_exc
       \/ pc' = "job_raised" /\ job_exc' = Some("os.makedirs")
    /\ UNCHANGED <<splitVars, cmpVars, cliVars, auxVars,
                   content_uuid, uuid_calls, cover_ts_us, temp_dir, heic, mov>>

\* main.py 56: content_uuid = str(uuid.uuid4()).upper()
JobUuid ==
    /\ pc = "job_uuid"
    /\ \E u \in UUID4 : content_uuid' = Some(upper(u))
    /\ uuid_calls' = uuid_calls + 1
    /\ pc' = "job_read_ts"
    /\ UNCHANGED <<splitVars, cmpVars, cliVars, auxVars, cover_ts_us, temp_dir, heic, mov, job_exc>>

\* main.py 58
JobReadTs ==
    /\ pc = "job_read_ts"
    /\ cover_ts_us' = get_motion_photo_presentation_timestamp_us(jpg)
    /\ pc' = "job_mkdtemp"
    /\ UNCHANGED <<splitVars, cmpVars, cliVars, auxVars, content_uuid, uuid_calls, temp_dir, heic, mov, job_exc>>

\* main.py 61: temp_dir = tempfile.mkdtemp(prefix="motion_photo_")
JobMkdtemp ==
    /\ pc = "job_mkdtemp"
    /\ \/ temp_dir' = TRUE /\ pc' = "job_split" /\ UNCHANGED job_exc
       \/ pc' = "job_raised" /\ job_exc' = Some("tempfile.mkdtemp") /\ UNCHANGED temp_dir
    /\ UNCHANGED <<splitVars, cmpVars, cliVars, auxVars, content_uuid, uuid_calls, cover_ts_us, heic, mov>>

\* main.py 63-65: split_motion_photo_jpg(jpg_path, static_jpg, embedded_mp4)
JobSplit ==
    /\ pc = "job_split"
    /\ LET r == split_motion_photo_jpg(jpg)
       IN  IF r.raised
           THEN /\ job_exc' = Some(r.error)
                /\ pc' = "job_finally"
                /\ UNCHANGED <<out_static, out_video>>
           ELSE /\ out_static' = r.static
                /\ out_video' = r.video
                /\ pc' = "job_convert_heic"
                /\ UNCHANGED job_exc
    /\ UNCHANGED <<jpg, video_size, cmpVars, cliVars, auxVars,
                   content_uuid, uuid_calls, cover_ts_us, temp_dir, heic, mov>>

\* main.py 66: convert_jpg_to_heic(static_jpg, heic_path, metadata_source_path=jpg_path)
JobConvertHeic ==
    /\ pc = "job_convert_heic"
    /\ \/ heic' = Some(NewHeic) /\ pc' = "job_makernotes" /\ UNCHANGED job_exc
       \/ /\ heic' \in {heic, Some(NewHeic)}
          /\ job_exc' = Some("convert_jpg_to_heic")
          /\ pc' = "job_finally"
    /\ UNCHANGED <<splitVars, cmpVars, cliVars, auxVars, content_uuid, uuid_calls, cover_ts_us, temp_dir, mov>>

\* main.py 68-72: inject the MakerNotes binary when it is there, warn otherwise
JobMakerNotes ==
    /\ pc = "job_makernotes"
    /\ \/ pc' = "job_convert_mov" /\ UNCHANGED job_exc
       \/ pc' = "job_finally" /\ job_exc' = Some("inject_heic_makernotes_from_file")
    /\ UNCHANGED <<splitVars, cmpVars, cliVars, auxVars,
                   content_uuid, uuid_calls, cover_ts_us, temp_dir, heic, mov>>

\* main.py 74: convert_mp4_to_mov(embedded_mp4, mov_path, cover_ts_us, content_uuid)
JobConvertMov ==
    /\ pc = "job_convert_mov"
    /\ \E avf_usable \in BOOLEAN, swift_ok \in BOOLEAN, ffmpeg_ok \in BOOLEAN :
          LET r == convert_mp4_to_mov(cover_ts_us, content_uuid, avf_usable, swift_ok,
                                      ffmpeg_ok)
          IN  IF r.raised
              THEN /\ mov' \in {mov, Some(Mov(None, None, None))}
                   /\ job_exc' = Some("convert_mp4_to_mov")
                   /\ pc' = "job_finally"
              ELSE /\ mov' = r.mov
                   /\ pc' = "job_set_heic_id"
                   /\ UNCHANGED job_exc
    /\ UNCHANGED <<splitVars, cmpVars, cliVars, auxVars, content_uuid, uuid_calls, cover_ts_us, temp_dir, heic>>

\* main.py 75: set_heic_content_identifier(heic_path, content_uuid)
JobSetHeicId ==
    /\ pc = "job_set_heic_id"
    /\ \/ /\ heic' = Some(set_heic_content_identifier(Val(heic), Val(content_uuid)))
          /\ pc' = "job_set_video_index"
          /\ UNCHANGED job_exc
       \/ /\ job_exc' = Some("set_heic_content_identifier")
          /\ pc' = "job_finally"
          /\ UNCHANGED heic
    /\ UNCHANGED <<splitVars, cmpVars, cliVars, auxVars, content_uuid, uuid_calls, cover_ts_us, temp_dir, mov>>

\* main.py 76-77: set_heic_live_photo_video_index when a timestamp was read
JobSetVideoIndex ==
    /\ pc = "job_set_video_index"
    /\ IF IsNone(cover_ts_us)
       THEN /\ pc' = "job_set_mov_id"
            /\ UNCHANGED <<heic, job_exc>>
       ELSE \/ \E apple_ok \in BOOLEAN :
                 /\ heic' = Some(set_heic_live_photo_video_index(Val(heic), cover_ts_us,
                                                                   apple_ok))
                 /\ pc' = "job_set_mov_id"
                 /\ UNCHANGED job_exc
            \/ /\ job_exc' = Some("set_heic_live_photo_video_index")
               /\ pc' = "job_finally"
               /\ UNCHANGED heic
    /\ UNCHANGED <<splitVars, cmpVars, cliVars, auxVars, content_uuid, uuid_calls, cover_ts_us, temp_dir, mov>>

\* main.py 78-79: set_mov_content_identifier(mov_path, content_uuid), return
JobSetMovId ==
    /\ pc = "job_set_mov_id"
    /\ \/ /\ mov' = Some(set_mov_content_identifier(Val(mov), Val(content_uuid)))
          /\ UNCHANGED job_exc
       \/ /\ job_exc' = Some("set_mov_content_identifier")
          /\ UNCHANGED mov
    /\ pc' = "job_finally"
    /\ UNCHANGED <<splitVars, cmpVars, cliVars, auxVars, content_uuid, uuid_calls, cover_ts_us, temp_dir, heic>>

\* main.py 80-82: finally, shutil.rmtree(temp_dir) with static.jpg and video.mp4
JobFinally ==
    /\ pc = "job_finally"
    /\ temp_dir' = FALSE
    /\ out_static' = None
    /\ out_video' = None
    /\ pc' = IF IsNone(job_exc) THEN "job_returned" ELSE "job_raised"
    /\ UNCHANGED <<jpg, video_size, cmpVars, cliVars, auxVars,
                   content_uuid, uuid_calls, cover_ts_us, heic, mov, job_exc>>

jpg_motion_to_heic_mov ==
    \/ JobDetect
    \/ JobMakedirs
    \/ JobUuid
    \/ JobReadTs
    \/ JobMkdtemp
    \/ JobSplit
    \/ JobConvertHeic
    \/ JobMakerNotes
    \/ JobConvertMov
    \/ JobSetHeicId
    \/ JobSetVideoIndex
    \/ JobSetMovId
    \/ JobFinally

JobNext == jpg_motion_to_heic_mov

SpecJob == JobInit /\ [][JobNext]_vars

\* ---------------------------------------------------------------- batch.py and main.py
RECURSIVE SubsetsUpTo(_, _)
SubsetsUpTo(S, k) ==
    IF k = 0 THEN {{}}
    ELSE LET smaller == SubsetsUpTo(S, k - 1)
         IN  smaller \cup {T \cup {x} : T \in smaller, x \in S}

Listings == SubsetsUpTo(Names, MaxDirFiles)

CliInit ==
    /\ SplitIdle
    /\ CmpIdle
    /\ JobIdle
    /\ AuxIdle
    /\ \/ /\ pc = "batch_main"
          /\ mode \in {"livp", "heic", "jpg"}
          /\ input_name = None
          /\ \/ input_there = TRUE /\ listing \in Listings
             \/ input_there = FALSE /\ listing = {}
       \/ /\ pc = "main"
          /\ mode = ""
          /\ listing \in Listings
          /\ \E n \in Names : input_name = Some(n)
          /\ input_there = (Val(input_name) \in listing)
    /\ queue = <<>>
    /\ idx = 0
    /\ ok = 0
    /\ failed = <<>>
    /\ job_log = <<>>
    /\ cli_temp_dir = FALSE
    /\ cli_event = ""
    /\ exit_code = None
    /\ out_files = {}

\* batch.py 180-185: the input directory must exist
BatchMain ==
    /\ pc = "batch_main"
    /\ IF input_there
       THEN /\ pc' = "batch_collect"
            /\ UNCHANGED <<cli_event, exit_code>>
       ELSE /\ cli_event' = "missing_input"
            /\ exit_code' = Some(1)
            /\ pc' = "exited"
    /\ UNCHANGED <<splitVars, cmpVars, jobVars, auxVars, listing, input_there,
                   out_files, mode, input_name,
                   queue, idx, ok, failed, job_log, cli_temp_dir>>

\* batch.py 72-80, 106-114, 131-139: the work list; (0, []) when it is empty
BatchCollect ==
    /\ pc = "batch_collect"
    /\ queue' = CASE mode = "livp" -> collect_livp_files(listing)
                  [] mode = "heic" -> collect_heic_pairs(listing)
                  [] mode = "jpg" -> collect_motion_jpg_files(listing)
    /\ IF queue' = <<>>
       THEN /\ pc' = "batch_done"
            /\ UNCHANGED idx
       ELSE /\ pc' = "batch_loop"
            /\ idx' = 1
    /\ ok' = 0
    /\ failed' = <<>>
    /\ UNCHANGED <<splitVars, cmpVars, jobVars, auxVars, listing, input_there,
                   out_files, mode, input_name,
                   job_log, cli_temp_dir, cli_event, exit_code>>

\* batch.py 83-84 and 119-120: out_jpg = os.path.join(output_dir, base + ".jpg")
out_jpg(input) == Name(input.base, ".jpg")

\* batch.py 140-143: out_heic = os.path.join(output_dir, base + ".HEIC"); no
\* base of Names ends with ".jpg", so 141-142 leave base as it is
out_heic(input) == Name(input.base, ".HEIC")

\* main.py 43-47: the MOV is written beside the HEIC under the same base
out_mov(input) == Name(out_heic(input).base, ".mov")

\* the paths a job that returned has written, in the order it writes them:
\* converter.py 39 for a livp or heic job, main.py 66 and 74 for a jpg job
job_outputs(type, input) ==
    IF type = "jpg" THEN <<out_heic(input), out_mov(input)>> ELSE <<out_jpg(input)>>

\* the paths a job has written when it ends as result: all of them when it
\* returned, none when it was refused before its first write (batch.py 89-91,
\* main.py 36-41), the first few of them (perhaps none) when it raised later
written_by(type, input, result) ==
    LET all == job_outputs(type, input)
    IN  IF result = "returned" THEN {{all[i] : i \in 1..Len(all)}}
        ELSE IF result \in {"LIVP incomplete", NotAMotionPhoto} THEN {{}}
        ELSE {{all[i] : i \in 1..k} : k \in 0..Len(all)}

\* open(path, "wb") and the tools replace whatever file was at path
write_outputs(files, paths, input) ==
    {f \in files : f.path \notin paths} \cup {[path |-> q, by |-> input] : q \in paths}

\* one pass of a batch loop whose job ended as result
LoopPass(path, result) ==
    /\ \E paths \in written_by(mode, path, result) :
          out_files' = write_outputs(out_files, paths, path)
    /\ job_log' = Append(job_log, <<path, result>>)
    /\ ok' = IF result = "returned" THEN ok + 1 ELSE ok
    /\ failed' = IF result = "returned" THEN failed ELSE Append(failed, <<path, result>>)
    /\ idx' = next_job(idx, Len(queue), result # "returned")
    /\ UNCHANGED <<pc, splitVars, cmpVars, jobVars, auxVars, listing, input_there, mode, input_name,
                   queue, cli_temp_dir, cli_event, exit_code>>

\* faulty variant: the directory is left behind
rmtree_skipped(exists) == exists

\* if os.path.isdir(temp_dir): shutil.rmtree(temp_dir): whether it still exists
rmtree(exists) == FALSE

\* the bookkeeping of one LIVP job that ended as result
LivpCount(path, result) ==
    /\ job_log' = Append(job_log, <<path, result>>)
    /\ ok' = IF result = "returned" THEN ok + 1 ELSE ok
    /\ failed' = IF result = "returned" THEN failed ELSE Append(failed, <<path, result>>)

\* batch.py 82-85: temp_dir = tempfile.mkdtemp(prefix="batch_livp_"); when it
\* raises, the except clause records the job and the loop goes on
BatchLivpMkdtemp ==
    /\ pc = "batch_loop" /\ mode = "livp" /\ idx <= Len(queue)
    /\ \/ /\ batch_temp_dir' = TRUE
          /\ pc' = "batch_livp_body"
          /\ UNCHANGED <<idx, ok, failed, job_log>>
       \/ /\ LivpCount(queue[idx].input, "Exception")
          /\ idx' = next_job(idx, Len(queue), TRUE)
          /\ UNCHANGED <<pc, batch_temp_dir>>
    /\ UNCHANGED <<splitVars, cmpVars, jobVars, convVars, inferVars, probeVars, listing,
                   input_there, out_files,
                   mode, input_name, queue, cli_temp_dir, cli_event, exit_code,
                   batch_result>>

\* batch.py 86-93: extract_livp, the test for an incomplete LIVP (recorded at
\* once, then continue), create_motion_photo, ok += 1
BatchLivpBody ==
    /\ pc = "batch_livp_body"
    /\ \E result \in {"returned", "LIVP incomplete", "CalledProcessError", "Exception"} :
          /\ batch_result' = result
          /\ \E paths \in written_by(mode, queue[idx].input, result) :
                out_files' = write_outputs(out_files, paths, queue[idx].input)
          /\ IF result \in {"returned", "LIVP incomplete"}
             THEN LivpCount(queue[idx].input, result)
             ELSE UNCHANGED <<ok, failed, job_log>>
    /\ pc' = "batch_livp_finally"
    /\ UNCHANGED <<splitVars, cmpVars, jobVars, convVars, inferVars, probeVars, listing, input_there,
                   mode, input_name, queue, idx, cli_temp_dir, cli_event, exit_code,
                   batch_temp_dir>>

\* batch.py 94-100: the finally clause, then the except clause for a body that
\* raised, then the next pass of the loop
BatchLivpFinally ==
    /\ pc = "batch_livp_finally"
    /\ batch_temp_dir' = rmtree(batch_temp_dir)
    /\ IF batch_result \in {"CalledProcessError", "Exception"}
       THEN LivpCount(queue[idx].input, batch_result)
       ELSE UNCHANGED <<ok, failed, job_log>>
    /\ idx' = next_job(idx, Len(queue), batch_result # "returned")
    /\ batch_result' = ""
    /\ pc' = "batch_loop"
    /\ UNCHANGED <<splitVars, cmpVars, jobVars, convVars, inferVars, probeVars, listing,
                   input_there, out_files,
                   mode, input_name, queue, cli_temp_dir, cli_event, exit_code>>

\* batch.py 81-100: one pass of the loop of convert_batch_livp
BatchJobLivp ==
    \/ BatchLivpMkdtemp
    \/ BatchLivpBody
    \/ BatchLivpFinally

\* batch.py 115-125: create_motion_photo(heic_path, mov_path, out_jpg)
BatchJobHeic ==
    /\ pc = "batch_loop" /\ mode = "heic" /\ idx <= Len(queue)
    /\ \E result \in {"returned", "CalledProcessError", "Exception"} :
          LoopPass(queue[idx].input, result)

\* batch.py 140-152: jpg_motion_to_heic_mov(jpg_path, output_heic_path=out_heic)
BatchJobJpg ==
    /\ pc = "batch_loop" /\ mode = "jpg" /\ idx <= Len(queue)
    /\ \E result \in {"returned", "CalledProcessError", NotAMotionPhoto} :
          LoopPass(queue[idx].input, result)

\* return ok, failed
BatchReturn ==
    /\ pc = "batch_loop" /\ idx > Len(queue)
    /\ pc' = "batch_done"
    /\ UNCHANGED <<splitVars, cmpVars, jobVars, cliVars, auxVars>>

\* batch.py 206-212: the summary, sys.exit(0 if not failed else 1)
BatchExit ==
    /\ pc = "batch_done"
    /\ exit_code' = Some(batch_exit_status(failed))
    /\ cli_event' = "batch_finished"
    /\ pc' = "exited"
    /\ UNCHANGED <<splitVars, cmpVars, jobVars, auxVars, listing, input_there,
                   out_files, mode, input_name,
                   queue, idx, ok, failed, job_log, cli_temp_dir>>

\* main.py 110-117, 133, 151-157: the input must exist and have a known extension
MainStart ==
    /\ pc = "main"
    /\ IF ~input_there
       THEN /\ cli_event' = "missing_input"
            /\ exit_code' = Some(exit_status("missing_input"))
            /\ pc' = "exited"
       ELSE /\ UNCHANGED exit_code
            /\ LET ext == lower(Val(input_name).ext)
               IN  IF ext = ".livp" THEN pc' = "main_livp" /\ UNCHANGED cli_event
                   ELSE IF ext = ".heic" THEN pc' = "main_heic" /\ UNCHANGED cli_event
                   ELSE IF ext \in {".jpg", ".jpeg"}
                        THEN pc' = "main_jpg" /\ UNCHANGED cli_event
                   ELSE pc' = "main_finally" /\ cli_event' = "unsupported"
    /\ UNCHANGED <<splitVars, cmpVars, jobVars, auxVars, listing, input_there,
                   out_files, mode, input_name,
                   queue, idx, ok, failed, job_log, cli_temp_dir>>

\* main.py 118-131: mkdtemp, extract_livp, create_motion_photo
MainLivp ==
    /\ pc = "main_livp"
    /\ cli_temp_dir' = TRUE
    /\ cli_event' \in {"stage_exception", "incomplete_livp", "completed"}
    /\ pc' = "main_finally"
    /\ UNCHANGED <<splitVars, cmpVars, jobVars, auxVars, listing, input_there,
                   out_files, mode, input_name,
                   queue, idx, ok, failed, job_log, exit_code>>

\* main.py 134-149: the .mov or .MOV beside the HEIC, create_motion_photo
MainHeic ==
    /\ pc = "main_heic"
    /\ LET base == Val(input_name).base
       IN  IF Name(base, ".mov") \in listing \/ Name(base, ".MOV") \in listing
           THEN cli_event' \in {"stage_exception", "completed"}
           ELSE cli_event' = "missing_pair"
    /\ pc' = "main_finally"
    /\ UNCHANGED <<splitVars, cmpVars, jobVars, auxVars, listing, input_there,
                   out_files, mode, input_name,
                   queue, idx, ok, failed, job_log, cli_temp_dir, exit_code>>

\* main.py 151-153: jpg_motion_to_heic_mov(input_path, output_path)
MainJpg ==
    /\ pc = "main_jpg"
    /\ cli_event' \in {"stage_exception", "completed"}
    /\ pc' = "main_finally"
    /\ UNCHANGED <<splitVars, cmpVars, jobVars, auxVars, listing, input_there,
                   out_files, mode, input_name,
                   queue, idx, ok, failed, job_log, cli_temp_dir, exit_code>>

\* main.py 159-166: the except clauses, the finally clause, the end of the process
MainFinally ==
    /\ pc = "main_finally"
    /\ cli_temp_dir' = FALSE
    /\ exit_code' = Some(exit_status(cli_event))
    /\ pc' = "exited"
    /\ UNCHANGED <<splitVars, cmpVars, jobVars, auxVars, listing, input_there,
                   out_files, mode, input_name,
                   queue, idx, ok, failed, job_log, cli_event>>

CliNext ==
    \/ BatchMain
    \/ BatchCollect
    \/ BatchJobLivp
    \/ BatchJobHeic
    \/ BatchJobJpg
    \/ BatchReturn
    \/ BatchExit
    \/ MainStart
    \/ MainLivp
    \/ MainHeic
    \/ MainJpg
    \/ MainFinally

SpecCli == CliInit /\ [][CliNext]_vars

\* ---------------------------------------------------------------- convert_heic_to_jpg, convert_jpg_to_heic
\* the EXIF Orientation values; None is a file without the tag
Orientations == 1..8
OrientTags == {None} \cup {Some(k) : k \in Orientations}

\* an image file: the path that wrote its pixels and its stored Orientation tag
Img(via, orient) == [via |-> via, orient |-> orient]

\* magick -auto-orient: the pixels are rotated and a stored Orientation becomes 1
magick_auto_orient(orient) == IF orient = None THEN None ELSE Some(1)

\* exiftool -TagsFromFile input -all:all ... -Orientation= -Orientation#=1 output
_copy_metadata_with_normalized_orientation(source, target) == Some(1)

\* exiftool -TagsFromFile source -all:all -unsafe -icc_profile -MicroVideo= ... heic:
\* every tag of the source is copied, Orientation among them
strip_cmd(source, target) == IF source = None THEN target ELSE source

\* faulty variant: the exception of the enhanced path leaves the function
enhanced_except_reraised(exc) == Some(exc)

\* except Exception as e: logger.warning(...); nothing is raised again
enhanced_except(exc) == None

\* how _convert_heic_to_ultrahdr_jpg can end
EnhancedHeicOutcomes(tools) ==
    IF ~tools THEN {"returned_false"}
    ELSE {"heif_convert_failed", "gainmap_missing", "ultrahdr_app_failed",
          "metadata_failed", "returned_true"}

\* how _convert_ultrahdr_jpg_to_heic can end
EnhancedJpgOutcomes(tools) ==
    IF ~tools THEN {"returned_false"} ELSE {"heif_enc_failed", "returned_true"}

ConvInit ==
    /\ SplitIdle
    /\ CmpIdle
    /\ JobIdle
    /\ CliIdle
    /\ InferIdle
    /\ LivpIdle
    /\ ProbeIdle
    /\ pc = "conv_classify"
    /\ conv_dir \in {"heic_to_jpg", "jpg_to_heic"}
    /\ conv_hdr \in BOOLEAN
    /\ conv_tools \in BOOLEAN
    /\ src_orient \in OrientTags
    /\ out_img \in {None, Some(Img("old", Some(3)))}
    /\ conv_log = <<>>
    /\ conv_exc = None

\* utils.py 218 and 589-590: only a likely HDR input tries the enhanced path
ConvClassify ==
    /\ pc = "conv_classify"
    /\ pc' = IF conv_hdr THEN "conv_enhanced" ELSE "conv_standard"
    /\ UNCHANGED <<splitVars, cmpVars, jobVars, cliVars, auxVars>>

\* the end of an enhanced path that did not return True
EnhancedFallback(outcome) ==
    LET exc == IF outcome = "returned_false" THEN None ELSE enhanced_except(outcome)
    IN  /\ conv_exc' = exc
        /\ pc' = IF exc = None THEN "conv_standard" ELSE "conv_raised"

\* utils.py 219-224, _convert_heic_to_ultrahdr_jpg
ConvEnhancedHeic ==
    /\ pc = "conv_enhanced" /\ conv_dir = "heic_to_jpg"
    /\ \E outcome \in EnhancedHeicOutcomes(conv_tools) :
          /\ conv_log' = Append(conv_log, <<"enhanced", outcome>>)
          /\ CASE outcome = "returned_true" ->
                    /\ out_img' = Some(Img("enhanced",
                           _copy_metadata_with_normalized_orientation(src_orient, None)))
                    /\ pc' = "conv_returned"
                    /\ UNCHANGED conv_exc
               [] outcome = "metadata_failed" ->
                    /\ out_img' = Some(Img("enhanced", None))
                    /\ EnhancedFallback(outcome)
               [] OTHER ->
                    /\ UNCHANGED out_img
                    /\ EnhancedFallback(outcome)
    /\ UNCHANGED <<splitVars, cmpVars, jobVars, cliVars, inferVars, livpVars, probeVars, conv_dir, conv_hdr,
                   conv_tools, src_orient>>

\* utils.py 591-595, _convert_ultrahdr_jpg_to_heic
ConvEnhancedJpg ==
    /\ pc = "conv_enhanced" /\ conv_dir = "jpg_to_heic"
    /\ \E outcome \in EnhancedJpgOutcomes(conv_tools) :
          /\ conv_log' = Append(conv_log, <<"enhanced", outcome>>)
          /\ IF outcome = "returned_true"
             THEN /\ out_img' = Some(Img("enhanced", src_orient))
                  /\ pc' = "conv_copy_tags"
                  /\ UNCHANGED conv_exc
             ELSE /\ UNCHANGED out_img
                  /\ EnhancedFallback(outcome)
    /\ UNCHANGED <<splitVars, cmpVars, jobVars, cliVars, inferVars, livpVars, probeVars, conv_dir, conv_hdr,
                   conv_tools, src_orient>>

\* utils.py 226-237: magick -auto-orient, then the metadata copy
ConvStandardHeic ==
    /\ pc = "conv_standard" /\ conv_dir = "heic_to_jpg"
    /\ \E outcome \in {"magick_failed", "metadata_failed", "ok"} :
          /\ conv_log' = Append(conv_log, <<"standard", outcome>>)
          /\ CASE outcome = "magick_failed" ->
                    /\ UNCHANGED out_img
                    /\ conv_exc' = Some("CalledProcessError")
                    /\ pc' = "conv_raised"
               [] outcome = "metadata_failed" ->
                    /\ out_img' = Some(Img("standard", magick_auto_orient(src_orient)))
                    /\ conv_exc' = Some("CalledProcessError")
                    /\ pc' = "conv_raised"
               [] outcome = "ok" ->
                    /\ out_img' = Some(Img("standard",
                           _copy_metadata_with_normalized_orientation(src_orient,
                               magick_auto_orient(src_orient))))
                    /\ UNCHANGED conv_exc
                    /\ pc' = "conv_returned"
    /\ UNCHANGED <<splitVars, cmpVars, jobVars, cliVars, inferVars, livpVars, probeVars, conv_dir, conv_hdr,
                   conv_tools, src_orient>>

\* utils.py 597-605: magick -auto-orient
ConvStandardJpg ==
    /\ pc = "conv_standard" /\ conv_dir = "jpg_to_heic"
    /\ \E outcome \in {"magick_failed", "ok"} :
          /\ conv_log' = Append(conv_log, <<"standard", outcome>>)
          /\ IF outcome = "ok"
             THEN /\ out_img' = Some(Img("standard", magick_auto_orient(src_orient)))
                  /\ UNCHANGED conv_exc
                  /\ pc' = "conv_copy_tags"
             ELSE /\ UNCHANGED out_img
                  /\ conv_exc' = Some("CalledProcessError")
                  /\ pc' = "conv_raised"
    /\ UNCHANGED <<splitVars, cmpVars, jobVars, cliVars, inferVars, livpVars, probeVars, conv_dir, conv_hdr,
                   conv_tools, src_orient>>

\* utils.py 607-639: the tag copy (checked), the HDR tag copy (check=False)
ConvCopyTags ==
    /\ pc = "conv_copy_tags"
    /\ \E outcome \in {"exiftool_failed", "ok"} :
          /\ conv_log' = Append(conv_log, <<"copy_tags", outcome>>)
          /\ IF outcome = "ok"
             THEN /\ out_img' = Some(Img(Val(out_img).via,
                                         strip_cmd(src_orient, Val(out_img).orient)))
                  /\ UNCHANGED conv_exc
                  /\ pc' = "conv_returned"
             ELSE /\ UNCHANGED out_img
                  /\ conv_exc' = Some("CalledProcessError")
                  /\ pc' = "conv_raised"
    /\ UNCHANGED <<splitVars, cmpVars, jobVars, cliVars, inferVars, livpVars, probeVars, conv_dir, conv_hdr,
                   conv_tools, src_orient>>

ConvNext ==
    \/ ConvClassify
    \/ ConvEnhancedHeic
    \/ ConvEnhancedJpg
    \/ ConvStandardHeic
    \/ ConvStandardJpg
    \/ ConvCopyTags

SpecConvert == ConvInit /\ [][ConvNext]_vars

\* ---------------------------------------------------------------- get_apple_live_photo_presentation_timestamp_us
\* the data tracks of a MOV; times are counted in half microseconds, durations
\* in milliseconds
Tracks == {"meta", "still"}
PtsTimes == {0, 3, 30000}
PacketSizes == {0, 9, 17}
StreamDurations == {None, Some(20), Some(21)}

Packet(track, pts_time, size) == [track |-> track, pts_time |-> pts_time, size |-> size]
Packets == {Packet(t, p, z) : t \in Tracks, p \in PtsTimes, z \in PacketSizes}

Videos ==
    [packets : UNION {[1..n -> Packets] : n \in 0..MaxPackets},
     duration : [Tracks -> StreamDurations]]

\* the packets of one track, in file order
TrackPackets(v, t) == SelectSeq(v.packets, LAMBDA p : p.track = t)

\* ffprobe -select_streams d -show_entries stream=start_time,duration,nb_frames
ffprobe_streams(v) ==
    {[start_time |-> Some(TrackPackets(v, t)[1].pts_time),
      nb_frames |-> Some(Len(TrackPackets(v, t))),
      duration |-> v.duration[t]] : t \in {u \in Tracks : TrackPackets(v, u) # <<>>}}

\* ffprobe -select_streams d -show_entries packet=pts_time,size
ffprobe_packets(v) ==
    {[pts_time |-> Some(v.packets[i].pts_time), size |-> Some(v.packets[i].size)] :
        i \in 1..Len(v.packets)}

\* min() of a non-empty set of numbers
min(S) == CHOOSE x \in S : \A y \in S : x <= y

\* int(round(x * 1_000_000)) for x given in half microseconds: halves go to even
round_us(h) ==
    IF h % 2 = 0 THEN h \div 2
    ELSE IF (h \div 2) % 2 = 0 THEN h \div 2 ELSE (h \div 2) + 1

\* utils.py 381-404: the start times of the streams that pass every test
stream_candidates(streams) ==
    {Val(st.start_time) : st \in
        {x \in streams :
            /\ ~IsNone(x.start_time)
            /\ Val(x.start_time) > 0
            /\ _safe_non_negative_int(x.nb_frames, -1) = 1
            /\ ~(~IsNone(x.duration) /\ Val(x.duration) > 20)}}

\* faulty variant: an empty packet is taken as well
packet_size_ok_up_to_16(size) == size <= 16

\* utils.py 429: size <= 0 or size > 16 drops the packet
packet_size_ok(size) == ~(size <= 0 \/ size > 16)

\* utils.py 426-436: the times of the small packets with a positive time
pts_candidates(packets) ==
    {Val(p.pts_time) : p \in
        {x \in packets :
            /\ ~IsNone(x.pts_time)
            /\ packet_size_ok(_safe_non_negative_int(x.size, -1))
            /\ Val(x.pts_time) > 0}}

get_apple_live_photo_presentation_timestamp_us(v, ok1, ok2) ==
    LET candidates == IF ok1 THEN stream_candidates(ffprobe_streams(v)) ELSE {}
        later == pts_candidates(ffprobe_packets(v))
    IN  IF candidates # {} THEN Some(round_us(min(candidates)))
        ELSE IF ~ok2 THEN None
        ELSE IF later = {} THEN None
        ELSE Some(round_us(min(later)))

InferInit ==
    /\ SplitIdle
    /\ CmpIdle
    /\ JobIdle
    /\ CliIdle
    /\ ConvIdle
    /\ LivpIdle
    /\ ProbeIdle
    /\ pc = "infer"
    /\ probed_mov \in Videos
    /\ probe_ok = <<>>
    /\ infer_ts = None

Infer ==
    /\ pc = "infer"
    /\ \E ok1, ok2 \in BOOLEAN :
          /\ probe_ok' = <<ok1, ok2>>
          /\ infer_ts' = get_apple_live_photo_presentation_timestamp_us(probed_mov, ok1, ok2)
    /\ pc' = "infer_done"
    /\ UNCHANGED <<splitVars, cmpVars, jobVars, cliVars, convVars, livpVars, probeVars, probed_mov>>

InferNext == Infer

SpecInfer == InferInit /\ [][InferNext]_vars

\* ---------------------------------------------------------------- HDR classifiers
Capitals == <<"A", "B", "C", "D", "E", "F", "G", "H", "I", "J", "K", "L", "M",
              "N", "O", "P", "Q", "R", "S", "T", "U", "V", "W", "X", "Y", "Z">>
Smalls == <<"a", "b", "c", "d", "e", "f", "g", "h", "i", "j", "k", "l", "m",
            "n", "o", "p", "q", "r", "s", "t", "u", "v", "w", "x", "y", "z">>

\* str.lower() of a string of ASCII characters
str_lower(s) ==
    [i \in DOMAIN s |->
        IF \E k \in DOMAIN Capitals : Capitals[k] = s[i]
        THEN Smalls[CHOOSE k \in DOMAIN Capitals : Capitals[k] = s[i]]
        ELSE s[i]]

\* s.endswith(suffix)
endswith(s, suffix) ==
    Len(s) >= Len(suffix) /\ SubSeq(s, Len(s) - Len(suffix) + 1, Len(s)) = suffix

\* sub in s
contains(sub, s) ==
    \E i \in 1..(Len(s) - Len(sub) + 1) : SubSeq(s, i, i + Len(sub) - 1) = sub

\* the paths handed to the classifiers
ImagePaths ==
    { <<"a", ".", "h", "e", "i", "c">>, <<"a", ".", "H", "E", "I", "F">>,
      <<"a", ".", "j", "p", "g">>, <<"a", ".", "J", "P", "E", "G">>,
      <<"a", ".", "p", "n", "g">> }

\* the values exiftool -s3 prints for the four tags the classifiers ask for
GainMapVersions == {None, Some(<<"1">>)}
AuxiliaryImageTypes ==
    {None, Some(<<"a", "u", "x", ":", "h", "d", "r", "g", "a", "i", "n", "m", "a", "p">>),
     Some(<<"a", "u", "x", ":", "d", "e", "p", "t", "h">>)}
TransferCharacteristicsValues ==
    {None, Some(<<"S", "M", "P", "T", "E", " ", "S", "T", " ", "2", "0", "8", "4">>),
     Some(<<"B", "T", ".", "2", "1", "0", "0", " ", "H", "L", "G">>),
     Some(<<"B", "T", ".", "7", "0", "9">>)}
NumbersOfImages == {None, Some(<<"1">>), Some(<<"2">>)}

ImageTags ==
    [HDRGainMapVersion : GainMapVersions, AuxiliaryImageType : AuxiliaryImageTypes,
     TransferCharacteristics : TransferCharacteristicsValues,
     NumberOfImages : NumbersOfImages]

\* utils._read_exiftool_values: the stripped non-empty value of every requested
\* tag the file holds, in the order requested; [] when exiftool fails
RECURSIVE PresentValues(_, _)
PresentValues(tags, names) ==
    IF Len(names) = 0 THEN <<>>
    ELSE LET v == tags[Head(names)]
             rest == PresentValues(tags, Tail(names))
         IN  IF IsNone(v) \/ Len(strip(Val(v))) = 0 THEN rest ELSE <<strip(Val(v))>> \o rest

_read_exiftool_values(tags, names, returncode) ==
    IF returncode # 0 THEN <<>> ELSE PresentValues(tags, names)

HdrMarkers ==
    { <<"h", "d", "r", "g", "a", "i", "n", "m", "a", "p">>,
      <<"s", "t", " ", "2", "0", "8", "4">>,
      <<"b", "t", ".", "2", "1", "0", "0">> }

\* utils._is_likely_hdr_heic
_is_likely_hdr_heic(input_path, tags, returncode) ==
    LET lower_path == str_lower(input_path)
    IN  IF ~(endswith(lower_path, <<".", "h", "e", "i", "c">>)
               \/ endswith(lower_path, <<".", "h", "e", "i", "f">>))
        THEN FALSE
        ELSE LET values == _read_exiftool_values(
                               tags, <<"HDRGainMapVersion", "AuxiliaryImageType",
                                       "TransferCharacteristics">>, returncode)
             IN  \E i \in DOMAIN values :
                    \E marker \in HdrMarkers : contains(marker, str_lower(values[i]))

\* utils._is_likely_ultrahdr_jpg
_is_likely_ultrahdr_jpg(jpg_path, tags, returncode) ==
    LET lower_path == str_lower(jpg_path)
    IN  IF ~(endswith(lower_path, <<".", "j", "p", "g">>)
               \/ endswith(lower_path, <<".", "j", "p", "e", "g">>))
        THEN FALSE
        ELSE LET values == _read_exiftool_values(
                               tags, <<"HDRGainMapVersion", "NumberOfImages">>, returncode)
             IN  \/ Len(values) >= 1 /\ Len(strip(values[1])) > 0
                 \/ \E i \in 2..Len(values) : isdigit(values[i]) /\ int(values[i]) > 1

ClassifyInit ==
    /\ SplitIdle
    /\ CmpIdle
    /\ JobIdle
    /\ CliIdle
    /\ ConvIdle
    /\ InferIdle
    /\ LivpIdle
    /\ ToolIdle
    /\ pc = "classify"
    /\ image_path \in ImagePaths
    /\ image_tags \in ImageTags
    /\ classifier = <<>>
    /\ likely_hdr = None

\* utils.py 218: convert_heic_to_jpg asks _is_likely_hdr_heic about its input
ClassifyHeic ==
    /\ pc = "classify"
    /\ \E returncode \in {0, 1} :
          /\ classifier' = <<"_is_likely_hdr_heic", returncode>>
          /\ likely_hdr' = Some(_is_likely_hdr_heic(image_path, image_tags, returncode))
    /\ pc' = "classified"
    /\ UNCHANGED <<splitVars, cmpVars, jobVars, cliVars, convVars, inferVars, livpVars,
                   toolVars, image_path, image_tags>>

\* utils.py 590: convert_jpg_to_heic asks _is_likely_ultrahdr_jpg about its input
ClassifyJpg ==
    /\ pc = "classify"
    /\ \E returncode \in {0, 1} :
          /\ classifier' = <<"_is_likely_ultrahdr_jpg", returncode>>
          /\ likely_hdr' = Some(_is_likely_ultrahdr_jpg(image_path, image_tags, returncode))
    /\ pc' = "classified"
    /\ UNCHANGED <<splitVars, cmpVars, jobVars, cliVars, convVars, inferVars, livpVars,
                   toolVars, image_path, image_tags>>

ClassifyNext == ClassifyHeic \/ ClassifyJpg

SpecClassify == ClassifyInit /\ [][ClassifyNext]_vars

\* ---------------------------------------------------------------- tool tests
Tools == {"heif-convert", "ultrahdr_app", "exiftool", "heif-enc"}
BatchTypes == {"livp", "heic", "jpg"}

\* utils._tool_exists / shutil.which(name) is not None: asks PATH at every call
_tool_exists(name, on_path) == name \in on_path

\* batch.has_ultrahdr_toolchain
has_ultrahdr_toolchain(on_path) ==
    /\ _tool_exists("heif-convert", on_path)
    /\ _tool_exists("ultrahdr_app", on_path)
    /\ _tool_exists("exiftool", on_path)

\* utils.py 112: the test that opens _convert_heic_to_ultrahdr_jpg
heic_tools_exist(on_path) ==
    /\ _tool_exists("heif-convert", on_path)
    /\ _tool_exists("ultrahdr_app", on_path)
    /\ _tool_exists("exiftool", on_path)

\* utils.py 201: the test that opens _convert_ultrahdr_jpg_to_heic
jpg_tools_exist(on_path) ==
    _tool_exists("heif-enc", on_path) /\ _tool_exists("exiftool", on_path)

ToolInit ==
    /\ SplitIdle
    /\ CmpIdle
    /\ JobIdle
    /\ CliIdle
    /\ ConvIdle
    /\ InferIdle
    /\ LivpIdle
    /\ HdrIdle
    /\ pc = "tool_hint"
    /\ path_tools \in SUBSET Tools
    /\ tool_type \in BatchTypes
    /\ hdr_hint = None
    /\ tool_checks = <<>>

\* batch.py 193-197: the hint printed before the jobs of a livp or heic batch;
\* its value is printed and not kept
ToolHint ==
    /\ pc = "tool_hint"
    /\ hdr_hint' = IF tool_type \in {"livp", "heic"}
                   THEN Some(has_ultrahdr_toolchain(path_tools)) ELSE None
    /\ pc' = "tool_jobs"
    /\ UNCHANGED <<splitVars, cmpVars, jobVars, cliVars, convVars, inferVars, livpVars,
                   hdrVars, path_tools, tool_type, tool_checks>>

\* a job of the batch whose input the classifier called HDR: the enhanced
\* conversion starts with its own tool test (utils.py 112 and 201)
ToolJob ==
    /\ pc = "tool_jobs"
    /\ Len(tool_checks) < MaxDirFiles
    /\ tool_checks' = Append(tool_checks,
                             IF tool_type = "jpg" THEN jpg_tools_exist(path_tools)
                             ELSE heic_tools_exist(path_tools))
    /\ UNCHANGED <<pc, splitVars, cmpVars, jobVars, cliVars, convVars, inferVars, livpVars,
                   hdrVars, path_tools, tool_type, hdr_hint>>

\* the environment: a tool is installed or removed while the batch runs
ToolPathChange ==
    /\ pc = "tool_jobs"
    /\ \E tool \in Tools :
          path_tools' = IF tool \in path_tools THEN path_tools \ {tool}
                        ELSE path_tools \cup {tool}
    /\ UNCHANGED <<pc, splitVars, cmpVars, jobVars, cliVars, convVars, inferVars, livpVars,
                   hdrVars, tool_type, hdr_hint, tool_checks>>

ToolNext == ToolHint \/ ToolJob \/ ToolPathChange

SpecTools == ToolInit /\ [][ToolNext]_vars

\* ---------------------------------------------------------------- every job that makes temporary files
\* a run of create_motion_photo, of jpg_motion_to_heic_mov, of batch.py or of main.py
TempInit == AssembleInit \/ JobInit \/ CliInit

TempNext == AssembleNext \/ JobNext \/ CliNext

SpecTemp == TempInit /\ [][TempNext]_vars

\* ================================================================ claims
\* a tag holds a non-negative integer written in decimal
HoldsInteger(tag) == ~IsNone(tag) /\ isdigit(Val(tag))

\* the last element of a tag's comma-separated value
LastElement(tag) == strip(split_last(Val(tag), ","))

\* a tag whose value, read as a comma-separated list, ends in a non-negative integer
HoldsIntegerList(tag) == ~IsNone(tag) /\ isdigit(LastElement(tag))

TagA == jpg.tags["MicroVideoOffset"]
TagB == jpg.tags["Directory1Length"]
TagC == jpg.tags["DirectoryItemLength"]

\* C4: tag priority.  On a file whose tags can be read: a Scheme-A offset a is
\* returned whatever the other tags hold; with Scheme A absent a Scheme-B length b
\* is returned; and whenever Scheme A or Scheme B holds an integer the result is
\* that integer (A before B), so the vendor value is returned only when neither does.
C4_TagPriority ==
    (pc = "detected" /\ jpg.readable) =>
        /\ HoldsInteger(TagA) => video_size = Some(int(Val(TagA)))
        /\ (IsNone(TagA) /\ HoldsInteger(TagB)) => video_size = Some(int(Val(TagB)))
        /\ (HoldsInteger(TagA) \/ HoldsInteger(TagB)) =>
              video_size = IF HoldsInteger(TagA) THEN Some(int(Val(TagA)))
                           ELSE Some(int(Val(TagB)))

\* all three schemes hold different integers and the Scheme-A one is returned
C4_Witness ==
    /\ pc = "detected"
    /\ HoldsInteger(TagA) /\ HoldsInteger(TagB) /\ HoldsIntegerList(TagC)
    /\ int(Val(TagA)) # int(Val(TagB))
    /\ int(Val(TagA)) # int(LastElement(TagC))
    /\ video_size = Some(int(Val(TagA)))

\* C5 as stated: the result is the first tag, in priority order, whose value read
\* as a comma-separated list ends in a non-negative integer, whichever scheme the
\* tag belongs to.
C5_LastElementAnyScheme ==
    (pc = "detected" /\ jpg.readable) =>
        video_size =
            IF HoldsIntegerList(TagA) THEN Some(int(LastElement(TagA)))
            ELSE IF HoldsIntegerList(TagB) THEN Some(int(LastElement(TagB)))
            ELSE IF HoldsIntegerList(TagC) THEN Some(int(LastElement(TagC)))
            ELSE None

\* C5 amended: the last-element reading applies to the vendor DirectoryItemLength
\* value only; a Scheme-A or Scheme-B value counts only when the whole value is an
\* integer, and a comma-separated one is skipped.
C5_LastElementVendorOnly ==
    (pc = "detected" /\ jpg.readable) =>
        video_size =
            IF HoldsInteger(TagA) THEN Some(int(Val(TagA)))
            ELSE IF HoldsInteger(TagB) THEN Some(int(Val(TagB)))
            ELSE IF HoldsIntegerList(TagC) THEN Some(int(LastElement(TagC)))
            ELSE None

\* a vendor list "0,2" read by its last element while Scheme A holds a list that
\* is skipped
C5_Witness ==
    /\ pc = "detected"
    /\ TagA = Some(<<"2", ",", " ", "0">>)
    /\ IsNone(TagB)
    /\ TagC = Some(<<"0", ",", "2">>)
    /\ video_size = Some(2)

\* declared video length of the input file
Declared == get_motion_photo_video_size(jpg)

\* C2: size invariant.  Whenever the split returns, the two parts it wrote add up
\* to the input file, the video part has the length detected from the tags, and
\* the static part is not empty.
C2_SizeInvariant ==
    pc = "split_returned" =>
        /\ ~IsNone(out_static) /\ ~IsNone(out_video)
        /\ Len(Val(out_static)) + Len(Val(out_video)) = Len(jpg.bytes)
        /\ ~IsNone(Declared) /\ Len(Val(out_video)) = Val(Declared)
        /\ video_size = Declared
        /\ Len(Val(out_static)) > 0

\* a split that returned with more than one byte on each side
C2_Witness ==
    /\ pc = "split_returned"
    /\ Len(Val(out_static)) >= 2
    /\ Len(Val(out_video)) >= 2

\* C3: every container whose declared video length v is absent, <= 0 or >= the
\* file size makes the split raise, and neither output file is written.
C3_RejectsBadLength ==
    (pc \in {"split_returned", "split_raised"}
     /\ (IsNone(Declared) \/ Val(Declared) <= 0 \/ Val(Declared) >= Len(jpg.bytes))) =>
        /\ pc = "split_raised"
        /\ out_static = None
        /\ out_video = None

\* a file truncated to fewer bytes than its declared video length was rejected
C3_Witness ==
    /\ pc = "split_raised"
    /\ ~IsNone(Declared)
    /\ Len(jpg.bytes) > 0
    /\ Val(Declared) > Len(jpg.bytes)
    /\ out_static = None /\ out_video = None

\* C1: round trip.  When a file assembled by create_motion_photo from image bytes
\* I and video bytes V is split, the split returns and writes a static file equal
\* to I and a video file equal to V.
C1_RoundTrip ==
    (pc \in {"split_returned", "split_raised"} /\ ~IsNone(combined_from)) =>
        /\ pc = "split_returned"
        /\ out_static = Some(Val(combined_from)[1])
        /\ out_video = Some(Val(combined_from)[2])

\* a round trip of a two-byte image and a two-byte video that differ
C1_Witness ==
    /\ pc = "split_returned"
    /\ ~IsNone(combined_from)
    /\ Val(combined_from)[1] = <<0, 1>>
    /\ Val(combined_from)[2] = <<1, 1>>
    /\ out_static = Some(<<0, 1>>)
    /\ out_video = Some(<<1, 1>>)

\* no probed tag of the input file parses as a non-negative integer
NoTagParses ==
    \/ ~jpg.readable
    \/ ~HoldsInteger(TagA) /\ ~HoldsInteger(TagB) /\ ~HoldsIntegerList(TagC)

\* C6: when no probed tag parses (the metadata tool exiting non-zero included)
\* the detector hands None to the job, and the job on such a file, or on one whose
\* detected length is 0, ends raised with the not-a-motion-photo message and never
\* returns.
C6_NotAMotionPhotoFails ==
    (pc # "job_detect" /\ (NoTagParses \/ Declared = Some(0))) =>
        /\ NoTagParses => video_size = None
        /\ pc = "job_raised"
        /\ job_exc = Some(NotAMotionPhoto)
        /\ heic \in {None, Some(OldHeic)} /\ mov \in {None, Some(OldMov)}

\* a job on a file the metadata tool could not read has failed
C6_Witness ==
    /\ pc = "job_raised"
    /\ ~jpg.readable
    /\ video_size = None
    /\ job_exc = Some(NotAMotionPhoto)

\* C7: a job that returned made one uuid4 call, and the HEIC's identifier, the
\* MOV's identifier and, when the AVFoundation writer wrote the MOV, the identifier
\* it was given are all the generated content_uuid.
C7_IdentifierPropagation ==
    pc = "job_returned" =>
        /\ uuid_calls = 1
        /\ ~IsNone(content_uuid)
        /\ Val(heic).content_id = content_uuid
        /\ Val(mov).keys_id = content_uuid
        /\ Val(mov).writer_id \in {None, content_uuid}

\* a returned job over an older pair, the MOV written by the AVFoundation writer
C7_Witness ==
    /\ pc = "job_returned"
    /\ content_uuid = Some("U2")
    /\ Val(heic).content_id = Some("U2")
    /\ Val(mov).keys_id = Some("U2")
    /\ Val(mov).writer_id = Some("U2")

\* the jobs of the log that ended as kind
LoggedInputs == [i \in 1..Len(job_log) |-> job_log[i][1]]
QueuedInputs == [i \in 1..Len(queue) |-> queue[i].input]
Succeeded == {i \in 1..Len(job_log) : job_log[i][2] = "returned"}
FailedJobs == SelectSeq(job_log, LAMBDA e : e[2] # "returned")

HasSidecar(n) == Name(n.base, ".mov") \in listing \/ Name(n.base, ".MOV") \in listing

\* C9: in the HEIC batch mode the work list holds exactly the listed files whose
\* extension is .heic in any case and that have a .mov or .MOV sidecar; a .heic
\* without one is never attempted, so it is in neither the success count nor
\* the failure list.
C9_SidecarEligibility ==
    (mode = "heic" /\ pc \in {"batch_loop", "batch_done", "exited"} /\ input_there) =>
        /\ \A n \in Names :
              (\E i \in 1..Len(queue) : queue[i].input = n)
                  <=> (n \in listing /\ lower(n.ext) = ".heic" /\ HasSidecar(n))
        /\ \A i \in 1..Len(queue) :
              /\ Val(queue[i].video) \in listing
              /\ Val(queue[i].video).base = queue[i].input.base
              /\ Val(queue[i].video).ext \in {".mov", ".MOV"}
        /\ \A n \in listing :
              (lower(n.ext) = ".heic" /\ ~HasSidecar(n)) =>
                  /\ \A i \in 1..Len(job_log) : job_log[i][1] # n
                  /\ \A i \in 1..Len(failed) : failed[i][1] # n
        /\ pc \in {"batch_done", "exited"} =>
              ok + Len(failed) =
                  Cardinality({n \in listing : lower(n.ext) = ".heic" /\ HasSidecar(n)})

C9_Witness ==
    /\ mode = "heic"
    /\ pc = "batch_done"
    /\ \E n, m \in listing :
          /\ lower(n.ext) = ".heic" /\ lower(m.ext) = ".heic"
          /\ Name(n.base, ".MOV") \in listing /\ Name(n.base, ".mov") \notin listing
          /\ ~HasSidecar(m)
          /\ queue = <<Entry(n, Some(Name(n.base, ".MOV")))>>
    /\ ok + Len(failed) = 1

\* the four error runs of the single-file program that the statement lists
ListedErrors == {"unsupported", "missing_pair", "incomplete_livp", "stage_exception"}

StageEntries(stage) == {i \in 1..Len(conv_log) : conv_log[i][1] = stage}
EnhancedFailed ==
    \E i \in StageEntries("enhanced") : conv_log[i][2] # "returned_true"

\* C11: when the enhanced path of convert_heic_to_jpg or convert_jpg_to_heic was
\* tried and did not succeed, its failure is not raised, the standard path runs
\* next, and the conversion returns iff the standard path and every later step
\* succeed; an exception that leaves the function comes from those steps.
C11_HdrFallback ==
    EnhancedFailed =>
        /\ pc \in {"conv_standard", "conv_copy_tags", "conv_returned", "conv_raised"}
        /\ pc # "conv_standard" =>
              /\ Len(conv_log) >= 2
              /\ conv_log[1][1] = "enhanced"
              /\ conv_log[2][1] = "standard"
        /\ pc = "conv_returned" <=>
              /\ StageEntries("standard") # {}
              /\ \A i \in 2..Len(conv_log) : conv_log[i][2] = "ok"
              /\ conv_log[Len(conv_log)][1] =
                    (IF conv_dir = "heic_to_jpg" THEN "standard" ELSE "copy_tags")
        /\ pc = "conv_raised" <=> conv_exc # None
        /\ conv_exc # None =>
              /\ Val(conv_exc) = "CalledProcessError"
              /\ conv_log[Len(conv_log)][1] \in {"standard", "copy_tags"}
              /\ conv_log[Len(conv_log)][2] # "ok"
        /\ pc = "conv_returned" => (out_img # None /\ Val(out_img).via = "standard")

C11_Witness ==
    /\ pc = "conv_returned"
    /\ conv_dir = "heic_to_jpg"
    /\ conv_log = <<<<"enhanced", "gainmap_missing">>, <<"standard", "ok">>>>
    /\ conv_exc = None

\* a stored Orientation that viewers display unrotated
ReadsNormal(orient) == orient = None \/ orient = Some(1)

\* C12: whenever the standard path produced the output of a conversion that
\* returned, in either direction, the Orientation stored in the output reads
\* normal, whatever the Orientation of the source was.
C12_OrientationNormal ==
    (pc = "conv_returned" /\ Val(out_img).via = "standard") =>
        ReadsNormal(Val(out_img).orient)

\* the run that shows otherwise: a JPG stored with Orientation 6, standard path
C12_RotatedJpgSource ==
    /\ pc = "conv_returned"
    /\ conv_dir = "jpg_to_heic"
    /\ src_orient = Some(6)
    /\ Val(out_img).via = "standard"
    /\ Val(out_img).orient = Some(6)

\* the packets of the video, each with the duration of its track
PacketsOf(v) == {v.packets[i] : i \in 1..Len(v.packets)}
DurationKnown(v, p) == ~IsNone(v.duration[p.track])
BothProbesRan == probe_ok = <<TRUE, TRUE>>

\* C13 as stated: the candidates are the packets with a positive time, at most
\* 16 bytes and, when the duration is known, at most 20 ms of it; the result is
\* the least candidate time rounded to the microsecond, None without candidates.
StatedCandidates(v) ==
    {p.pts_time : p \in
        {x \in PacketsOf(v) :
            /\ x.pts_time > 0
            /\ x.size <= 16
            /\ DurationKnown(v, x) => Val(v.duration[x.track]) <= 20}}

C13_CandidatesAsStated ==
    (pc = "infer_done" /\ BothProbesRan) =>
        infer_ts = (IF StatedCandidates(probed_mov) = {} THEN None
                    ELSE Some(round_us(min(StatedCandidates(probed_mov)))))

\* the tracks of one packet that starts after 0 and is not known to last
\* longer than 20 ms
SingleFrameTracks(v) ==
    {t \in Tracks :
        /\ Len(TrackPackets(v, t)) = 1
        /\ TrackPackets(v, t)[1].pts_time > 0
        /\ IsNone(v.duration[t]) \/ Val(v.duration[t]) <= 20}
SmallPackets(v) ==
    {p \in PacketsOf(v) : p.pts_time > 0 /\ p.size >= 1 /\ p.size <= 16}
Nearest(h, us) == 2 * us - 1 <= h /\ h <= 2 * us + 1

\* C13: the result is the least start time of the single-frame tracks when
\* there is one; otherwise the least time of the packets of 1 to 16 bytes with
\* a positive time, whatever their duration; None when there is neither. The
\* value is in microseconds, rounded to nearest.
C13_TwoStageInference ==
    (pc = "infer_done" /\ BothProbesRan) =>
        LET first == {TrackPackets(probed_mov, t)[1].pts_time :
                          t \in SingleFrameTracks(probed_mov)}
            second == {p.pts_time : p \in SmallPackets(probed_mov)}
        IN  /\ first # {} =>
                  /\ ~IsNone(infer_ts)
                  /\ \E h \in first : Nearest(h, Val(infer_ts)) /\ \A g \in first : h <= g
            /\ (first = {} /\ second # {}) =>
                  /\ ~IsNone(infer_ts)
                  /\ \E h \in second : Nearest(h, Val(infer_ts)) /\ \A g \in second : h <= g
            /\ (first = {} /\ second = {}) => IsNone(infer_ts)

C13_Witness ==
    /\ pc = "infer_done"
    /\ BothProbesRan
    /\ probed_mov.packets = <<Packet("still", 30000, 9)>>
    /\ infer_ts = Some(15000)

\* the image at temp_jpg carries the tags that inject_motion_photo_metadata sets
Injected(f) ==
    /\ ~IsNone(f)
    /\ ~IsNone(cmp_video_size)
    /\ Val(f).tags["MicroVideoOffset"] = Some(str(Val(cmp_video_size)))
    /\ Val(f).tags["Directory1Length"] = Some(str(Val(cmp_video_size)))

\* C14: in every step of create_motion_photo, the video is transcoded only once
\* the image is converted, its size is read from the transcoded file, the tags
\* are injected only once the size is read and before anything is written to
\* the output, the output is written only from an injected image, and once the
\* output holds video bytes neither the image nor the output is written again.
C14_AssemblyOrdering ==
    [][/\ (temp_mp4' # temp_mp4 /\ ~IsNone(temp_mp4')) =>
              (~IsNone(temp_jpg) /\ IsNone(cmp_video_size) /\ IsNone(combined_from))
       /\ cmp_video_size' # cmp_video_size =>
              /\ ~IsNone(temp_jpg) /\ ~IsNone(temp_mp4)
              /\ cmp_video_size' = Some(Len(Val(temp_mp4).bytes))
              /\ ~Injected(temp_jpg)
       /\ (~IsNone(temp_jpg) /\ ~IsNone(temp_jpg') /\ temp_jpg' # temp_jpg) =>
              /\ ~IsNone(cmp_video_size)
              /\ IsNone(combined_from)
              /\ output_jpg' = output_jpg
       /\ output_jpg' # output_jpg => (Injected(temp_jpg) /\ IsNone(combined_from))
       /\ ~IsNone(combined_from) =>
              /\ temp_jpg' \in {temp_jpg, None}
              /\ output_jpg' = output_jpg]_vars

C14_Witness ==
    /\ pc = "cmp_returned"
    /\ ~IsNone(combined_from)
    /\ Len(Val(combined_from)[2]) = MaxVidLen
    /\ Val(output_jpg).tags["MicroVideoOffset"] = Some(str(MaxVidLen))

\* the last n bytes of a byte string
TailBytes(bytes, n) == SubSeq(bytes, Len(bytes) - n + 1, Len(bytes))

\* C15: after create_motion_photo returns, the MicroVideoOffset of Scheme A and
\* the Directory1Length of Scheme B of the output hold the same number, the
\* byte count of the transcoded video that is the tail of the output, and
\* get_motion_photo_video_size on the output returns that number.
C15_BothSchemesSameLength ==
    pc = "cmp_returned" =>
        LET out == Val(output_jpg)
            transcoded == Val(combined_from)[2]
        IN  /\ out.tags["MicroVideoOffset"] = out.tags["Directory1Length"]
            /\ out.tags["MicroVideoOffset"] = Some(str(Len(transcoded)))
            /\ Len(out.bytes) >= Len(transcoded)
            /\ TailBytes(out.bytes, Len(transcoded)) = transcoded
            /\ get_motion_photo_video_size(out) = Some(Len(transcoded))

\* a source image that came with stale length tags, and a two-byte video
C15_Witness ==
    /\ pc = "cmp_returned"
    /\ Val(output_jpg).tags["DirectoryItemLength"] = Some(<<"1", ",", "3">>)
    /\ Val(output_jpg).tags["Directory1Length"] = Some(<<"2">>)
    /\ Len(Val(combined_from)[2]) = 2

\* the explicit cover timestamp of the source: the primary field when it holds
\* digits, else the legacy field when it does
ExplicitTimestamp(f) ==
    LET primary == f.tags["MotionPhotoPresentationTimestampUs"]
        legacy == f.tags["MicroVideoPresentationTimestampUs"]
    IN  IF ~IsNone(primary) /\ isdigit(strip(Val(primary))) THEN Some(int(strip(Val(primary))))
        ELSE IF ~IsNone(legacy) /\ isdigit(strip(Val(legacy))) THEN Some(int(strip(Val(legacy))))
        ELSE None

\* C16: when jpg_motion_to_heic_mov returns, the timestamp stored on the HEIC is
\* the explicit value of the source, primary field before legacy field, and for
\* a source without one a value is stored all the same: the one inferred from
\* the video, else 0.
C16_TimestampResolution ==
    pc = "job_returned" =>
        /\ ~IsNone(ExplicitTimestamp(jpg)) => Val(heic).ts_xmp = ExplicitTimestamp(jpg)
        /\ IsNone(ExplicitTimestamp(jpg)) =>
              (~IsNone(Val(heic).ts_xmp) /\ Val(Val(heic).ts_xmp) >= 0)

\* the run that shows otherwise: a source without timestamp fields
C16_NothingStored ==
    /\ pc = "job_returned"
    /\ IsNone(jpg.tags["MotionPhotoPresentationTimestampUs"])
    /\ IsNone(jpg.tags["MicroVideoPresentationTimestampUs"])
    /\ Val(heic).ts_xmp = None
    /\ Val(heic).video_index = None
    /\ Val(mov).still_time = None

\* C17: when jpg_motion_to_heic_mov returns, the timestamp the HEIC carries and
\* the still-image time the MOV carries are the same non-negative integer, or
\* neither file carries one; this also when the MOV came from the ffmpeg copy.
C17_SameTimestampBothSides ==
    pc = "job_returned" =>
        /\ Val(heic).ts_xmp = Val(mov).still_time
        /\ ~IsNone(Val(heic).ts_xmp) => Val(Val(heic).ts_xmp) >= 0

\* the run that shows otherwise: the timestamp is on the HEIC, the MOV is a
\* plain copy without it
C17_OnlyImageCarriesIt ==
    /\ pc = "job_returned"
    /\ Val(heic).ts_xmp = Some(5)
    /\ Val(mov).still_time = None
    /\ Val(mov).writer_id = None

HeicInputs == {<<"a", ".", "h", "e", "i", "c">>, <<"a", ".", "H", "E", "I", "F">>}
JpegInputs == {<<"a", ".", "j", "p", "g">>, <<"a", ".", "J", "P", "E", "G">>}
GainMapVersionPresent == ~IsNone(image_tags.HDRGainMapVersion)
TransferMatches ==
    image_tags.TransferCharacteristics \in
        {Some(<<"S", "M", "P", "T", "E", " ", "S", "T", " ", "2", "0", "8", "4">>),
         Some(<<"B", "T", ".", "2", "1", "0", "0", " ", "H", "L", "G">>)}
SeveralImages == image_tags.NumberOfImages = Some(<<"2">>)

\* C19: whenever exiftool could read the file, a HEIC/HEIF input is classified
\* HDR-source exactly when a gain-map-version tag is present or the transfer
\* characteristic holds one of the fixed substrings, a JPEG input is classified
\* UltraHDR-source exactly when a gain-map-version tag is present or the
\* multi-image count is greater than 1, and every other input is SDR.
C19_ClassificationAsStated ==
    (pc = "classified" /\ classifier[2] = 0) =>
        /\ classifier[1] = "_is_likely_hdr_heic" =>
              (Val(likely_hdr) <=>
                  (image_path \in HeicInputs /\ (GainMapVersionPresent \/ TransferMatches)))
        /\ classifier[1] = "_is_likely_ultrahdr_jpg" =>
              (Val(likely_hdr) <=>
                  (image_path \in JpegInputs /\ (GainMapVersionPresent \/ SeveralImages)))

\* a JPEG with no gain-map-version tag and a multi-image count of 1 was
\* classified UltraHDR-source
C19_SingleImageJpegIsHdr ==
    /\ pc = "classified"
    /\ classifier = <<"_is_likely_ultrahdr_jpg", 0>>
    /\ image_path \in JpegInputs
    /\ ~GainMapVersionPresent
    /\ image_tags.NumberOfImages = Some(<<"1">>)
    /\ Val(likely_hdr)


\* C20: the gain-map tool chain is probed at most once per process and every
\* later job uses that result: the tool tests of the jobs of one batch all give
\* the same value, and the value of the hint when one was printed, even when
\* tools appear or disappear between jobs.
C20_CapabilityCached ==
    /\ \A i, j \in DOMAIN tool_checks : tool_checks[i] = tool_checks[j]
    /\ ~IsNone(hdr_hint) => \A i \in DOMAIN tool_checks : tool_checks[i] = Val(hdr_hint)

\* two jobs of one batch saw different capability values
C20_JobsDisagree ==
    /\ pc = "tool_jobs"
    /\ Len(tool_checks) >= 2
    /\ tool_checks[1] /\ ~tool_checks[2]


\* the jobs of the batch that returned, as positions of job_log
ReturnedJobs == {i \in DOMAIN job_log : job_log[i][2] = "returned"}
OutputsOf(i) == LET all == job_outputs(mode, job_log[i][1]) IN {all[k] : k \in DOMAIN all}

\* C21: each job of a batch has its own output path: the output files of two
\* distinct inputs of one batch run are disjoint, so every file a returned job
\* wrote is still the one that job wrote, whatever the other jobs did.
C21_OwnOutputPath ==
    mode \in {"livp", "heic", "jpg"} =>
        /\ \A i, j \in DOMAIN job_log : i # j => OutputsOf(i) \cap OutputsOf(j) = {}
        /\ \A i \in ReturnedJobs :
              \A q \in OutputsOf(i) : [path |-> q, by |-> job_log[i][1]] \in out_files

\* two jobs of one batch returned and the output of the earlier one was
\* replaced by the later one
C21_OutputOverwritten ==
    /\ pc = "batch_loop"
    /\ \E i, j \in ReturnedJobs :
          /\ i < j
          /\ \E q \in OutputsOf(i) :
                /\ [path |-> q, by |-> job_log[j][1]] \in out_files
                /\ [path |-> q, by |-> job_log[i][1]] \notin out_files


\* C22: a job that ends as Failed leaves no partial result at its output
\* paths: when create_motion_photo raises, the file at output_jpg_path is what
\* it was before the job (nothing, or the file of an earlier run), and when
\* jpg_motion_to_heic_mov raises the same holds of the HEIC and of the MOV.
C22_NoPartialResult ==
    /\ pc = "cmp_raised" => output_jpg \in {None, Some(OldOutput)}
    /\ pc = "job_raised" => (heic \in {None, Some(OldHeic)} /\ mov \in {None, Some(OldMov)})

\* jpg_motion_to_heic_mov raised and left a new HEIC with no MOV beside it
C22_HeicWithoutMov ==
    /\ pc = "job_raised"
    /\ ~IsNone(job_exc)
    /\ ~IsNone(heic) /\ heic # Some(OldHeic)
    /\ IsNone(mov)

====
